---- MODULE Spec2Model ----
(***************************************************************************)
(* State-container layer of gluco_sugar: the AppProvider context and the   *)
(* persistence it talks to, in the two authenticated implementations the   *)
(* repository holds:                                                       *)
(*   impl = "mem" : src/unnamed/part_000 (module-level in-memory store,    *)
(*                  localStorage session, every handler runs to its end)   *)
(*   impl = "db"  : src/src/context/app-context.tsx:125-320 on top of the  *)
(*                  server actions of src/src/app/profile/page.tsx:232-425 *)
(*                  (handlers suspend at each await)                       *)
(***************************************************************************)
EXTENDS Integers, Sequences, FiniteSets, TLC

(* ------------------------------ bounds --------------------------------- *)
MaxSec == 1
MaxMs == 1
MaxUsers == 2
MaxPick == 1
MaxAdded == 2
MaxInflight == 2

(* ------------------------- program constants --------------------------- *)
SeedLogCount == 30
SeedWeightCount == 4
MealCount == 5
WeekDays == 7
DaySeconds == 86400
MsPerSecond == 1000

(* ------------------------------ inputs --------------------------------- *)
Emails == {"a@x", "b@x"}
Passwords == {"pw1", "pw2"}
Names == {"Ann", "Bob"}
Heights == {170}
Birthdates == {"1990-05-15"}
SeedWeightValues == {75}
Weights == {80}
EditWeights == {81}
Glycemias == {1}
Dosages == {0}
MealTypes == <<"Breakfast", "Lunch", "Dinner", "Snack", "Fasting">>
MealInputs == {"Fasting"}
DateInputs == 0..MaxSec
NoSuchId == <<"none", 0>>
\* null, as a record so that it compares with the records it stands in for
None == [null |-> TRUE]

ErrDuplicate == "An account with this email already exists."
ErrInvalid == "Invalid email or password."
ErrNotAuth == "User not authenticated."
ErrBackend == "backend call rejected"
ErrType == "TypeError: cannot read properties of undefined"

\* toast({ title, description }); no toast yet after a mount
NoToast == [title |-> "none", description |-> ""]

VARIABLES
  impl,                \* which implementation of the context module is built
  scope,               \* the part of the container's API the caller drives in a run
  sec, ms,             \* wall clock read by Date.now() / new Date()
  users,               \* part_000: `users` array; db: the users table
  weightHistoryStore,  \* part_000: weightHistoryStore[userId]
  glucoseLogsStore,    \* part_000: glucoseLogsStore[userId]
  weightTable,         \* db: rows of schema.weightHistory
  glucoseTable,        \* db: rows of schema.glucoseLogs
  session,             \* localStorage 'loggedInUser' / glucotrack_session cookie
  authState, user, profile, weightHistory, glucoseLogs,   \* useState fields
  calls,               \* db: container calls suspended at an await
  last,                \* outcome of the container call that settled last
  createdW, createdG,  \* ids ever given to a weight entry / glucose log
  toast,               \* pages: the toast shown last
  isSaving,            \* ProfilePage: useState isSaving
  selectedWeightIds    \* ProfilePage: useState selectedWeightIds

vars == <<impl, scope, sec, ms, users, weightHistoryStore, glucoseLogsStore,
          weightTable, glucoseTable, session, authState, user, profile,
          weightHistory, glucoseLogs, calls, last, createdW, createdG,
          toast, isSaving, selectedWeightIds>>

config == <<impl, scope>>
container == <<authState, user, profile, weightHistory, glucoseLogs>>
memStores == <<weightHistoryStore, glucoseLogsStore>>
dbTables == <<weightTable, glucoseTable>>
clock == <<sec, ms>>
created == <<createdW, createdG>>
page == <<toast, isSaving, selectedWeightIds>>

(* ------------------------------ helpers -------------------------------- *)
Range(s) == {s[i] : i \in 1..Len(s)}

\* Date.now(): milliseconds since the epoch
DateNow == sec * MsPerSecond + ms

\* formatISO(new Date()): the ISO string has second resolution; an ISO string
\* is modelled by the second it names
FormatISONow == sec

\* new Date(iso).getTime(), in seconds (an ISO string of formatISO carries no
\* milliseconds; the comparators only subtract two of these)
GetTime(d) == d

\* formatISO(subDays(new Date(), n))
SubDaysISO(n) == sec - n * DaySeconds

\* no element compares after its successor under (a, b) => time(b) - time(a)
IsSortedDesc(s, key) ==
  \A i \in 1..(Len(s) - 1) : GetTime(s[i][key]) >= GetTime(s[i + 1][key])

\* Array.prototype.sort((a, b) => time(b) - time(a)): stable, descending.
\* x goes behind every element of the sorted acc that does not compare after it
InsertDesc(acc, x, key) ==
  LET pos == Cardinality({k \in 1..Len(acc) : GetTime(acc[k][key]) >= GetTime(x[key])})
  IN SubSeq(acc, 1, pos) \o <<x>> \o SubSeq(acc, pos + 1, Len(acc))

RECURSIVE SortDescFrom(_, _, _)
SortDescFrom(acc, s, key) ==
  IF s = <<>> THEN acc
  ELSE SortDescFrom(InsertDesc(acc, s[1], key), Tail(s), key)

\* a stable sort returns an array that is in order as it is
SortDesc(s, key) == IF IsSortedDesc(s, key) THEN s ELSE SortDescFrom(<<>>, s, key)

\* Array.prototype.map(e => e.id === x.id ? x : e)
ReplaceById(s, x) == [i \in 1..Len(s) |-> IF s[i].id = x.id THEN x ELSE s[i]]

\* Array.prototype.find / findFirst by one field: index of the first match, 0 when none
FindIndex(s, field, v) ==
  IF \E i \in 1..Len(s) : s[i][field] = v
  THEN CHOOSE i \in 1..Len(s) : s[i][field] = v /\ \A j \in 1..(i - 1) : s[j][field] # v
  ELSE 0

IdsOf(s) == {s[i].id : i \in 1..Len(s)}

IdSeq(s) == [i \in 1..Len(s) |-> s[i].id]

\* the rows a caller acts on: those added by hand and the MaxPick newest seeded
Pickable(e) == e.id[1] \in {"weight_", "gl_"} \/ e.id[2] < MaxPick

\* the ids a caller passes: of the rows it acts on, and one of no entry
PickIds(s) == {s[i].id : i \in {j \in 1..Len(s) : Pickable(s[j])}} \cup {NoSuchId}

\* the id arrays a caller passes to deleteMany: none, one, all that are shown
PickIdSeqs(s) == {<<>>, IdSeq(s)} \cup {<<i>> : i \in PickIds(s)}

AppUserOf(u) == [id |-> u.id, email |-> u.email, displayName |-> u.name]

Get(store, uid) == IF uid \in DOMAIN store THEN store[uid] ELSE <<>>

GetIds(store, uid) == IF uid \in DOMAIN store THEN store[uid] ELSE {}

Put(store, uid, s) == [k \in DOMAIN store \cup {uid} |-> IF k = uid THEN s ELSE store[k]]

\* { ...p, ...partial }
Merge(p, partial) ==
  [k \in DOMAIN p \cup DOMAIN partial |-> IF k \in DOMAIN partial THEN partial[k] ELSE p[k]]

\* what the promise of a container call settled with: "ok" or the Error's message
Settle(op, res) == [op |-> op, res |-> res]


(* =========================== part_000: "mem" =========================== *)

\* createInitialData: the 30 logs built when the user's list is missing or empty
SeedLogs(g, d) ==
  SortDesc([i \in 1..SeedLogCount |->
              [id |-> <<"log", i - 1>>,
               timestamp |-> SubDaysISO(i - 1),
               mealType |-> MealTypes[((i - 1) % MealCount) + 1],
               glycemia |-> g,
               dosage |-> d]], "timestamp")

\* createInitialData: the 4 weekly weights built when the list is missing or empty
SeedWeights(w) ==
  SortDesc([i \in 1..SeedWeightCount |->
              [id |-> <<"weight", i - 1>>,
               date |-> SubDaysISO((i - 1) * WeekDays),
               weight |-> w]], "date")

NeedsSeed(store, uid) == uid \notin DOMAIN store \/ Len(store[uid]) = 0

\* createInitialData(userId); Math.random() is the choice of g, d and w
createInitialData(uid) ==
  \E g \in Glycemias, d \in Dosages, w \in SeedWeightValues :
    /\ glucoseLogsStore' =
         IF NeedsSeed(glucoseLogsStore, uid)
         THEN Put(glucoseLogsStore, uid, SeedLogs(g, d)) ELSE glucoseLogsStore
    /\ weightHistoryStore' =
         IF NeedsSeed(weightHistoryStore, uid)
         THEN Put(weightHistoryStore, uid, SeedWeights(w)) ELSE weightHistoryStore
    /\ createdG' =
         IF NeedsSeed(glucoseLogsStore, uid)
         THEN Put(createdG, uid, GetIds(createdG, uid) \cup IdsOf(SeedLogs(g, d)))
         ELSE createdG
    /\ createdW' =
         IF NeedsSeed(weightHistoryStore, uid)
         THEN Put(createdW, uid, GetIds(createdW, uid) \cup IdsOf(SeedWeights(w)))
         ELSE createdW

\* setUser / setProfile / setAuthState('loggedIn') / createInitialData /
\* setWeightHistory / setGlucoseLogs, as mount, signup and login all do
MemShow(u) ==
  /\ user' = AppUserOf(u)
  /\ profile' = u
  /\ authState' = "loggedIn"
  /\ createInitialData(u.id)
  /\ weightHistory' = Get(weightHistoryStore', u.id)
  /\ glucoseLogs' = Get(glucoseLogsStore', u.id)

\* the mount effect of AppProvider
MemMount ==
  /\ impl = "mem"
  /\ authState = "loading"
  /\ LET i == IF session = None THEN 0
               ELSE FindIndex(users, "email", session.value) IN
       IF i # 0
       THEN MemShow(users[i])
       ELSE /\ authState' = "loggedOut"
            /\ UNCHANGED <<user, profile, weightHistory, glucoseLogs, memStores, created>>
  /\ UNCHANGED <<config, clock, users, dbTables, session, calls, last>>

NewUser(e, p, n) ==
  [id |-> <<"user_", DateNow>>, name |-> n, email |-> e, password |-> p,
   birthdate |-> "", height |-> 0]

EmailTaken(e) == \E i \in 1..Len(users) : users[i].email = e

\* a signup that skips the lookup by email
MemSignup_NoLookup(e, p, n) ==
  /\ impl = "mem"
  /\ authState # "loading"
  /\ Len(users) < MaxUsers
  /\ users' = Append(users, NewUser(e, p, n))
  /\ MemShow(NewUser(e, p, n))
  /\ session' = [value |-> e]
  /\ last' = Settle("signup", "ok")
  /\ UNCHANGED <<config, clock, dbTables, calls>>

MemSignup(e, p, n) ==
  /\ impl = "mem"
  /\ authState # "loading"
  /\ IF EmailTaken(e)
     THEN /\ last' = Settle("signup", ErrDuplicate)
          /\ UNCHANGED <<users, session, container, memStores, created>>
     ELSE /\ Len(users) < MaxUsers
          /\ users' = Append(users, NewUser(e, p, n))
          /\ MemShow(NewUser(e, p, n))
          /\ session' = [value |-> e]
          /\ last' = Settle("signup", "ok")
  /\ UNCHANGED <<config, clock, dbTables, calls>>

MemLogin(e, p) ==
  /\ impl = "mem"
  /\ authState # "loading"
  /\ LET i == FindIndex(users, "email", e) IN
       IF i = 0 \/ users[i].password # p
       THEN /\ last' = Settle("login", ErrInvalid)
            /\ UNCHANGED <<session, container, memStores, created>>
       ELSE /\ MemShow(users[i])
            /\ session' = [value |-> e]
            /\ last' = Settle("login", "ok")
  /\ UNCHANGED <<config, clock, users, dbTables, calls>>

MemLogout ==
  /\ impl = "mem"
  /\ authState # "loading"
  /\ user' = None
  /\ profile' = None
  /\ weightHistory' = <<>>
  /\ glucoseLogs' = <<>>
  /\ authState' = "loggedOut"
  /\ session' = None
  /\ last' = Settle("logout", "ok")
  /\ UNCHANGED <<config, clock, users, memStores, dbTables, calls, created>>


\* the Partial<UserProfile> objects a caller passes (types.ts:19-24 for "mem",
\* Partial<Omit<UserProfile, 'id' | 'email'>> for "db")
Absent == "absent"
AbsentNum == 0 - 1

MkPartial(n, b, h, e) ==
  LET full == [name |-> n, birthdate |-> b, height |-> h, email |-> e]
      D == {k \in {"name", "birthdate", "email"} : full[k] # Absent}
             \cup (IF h # AbsentNum THEN {"height"} ELSE {})
  IN [k \in D |-> full[k]]

\* every choice of supplied fields, one value for each
Partials ==
  {MkPartial(n, b, h, e) : n \in {"Bob", Absent}, b \in Birthdates \cup {Absent},
                           h \in Heights \cup {AbsentNum}, e \in {"a@x", Absent}}

\* the inputs of a run: two accounts where the run is about accounts, one where
\* it is about a ledger
SignupEmails == IF scope \in {"auth", "tenant"} THEN Emails ELSE {"a@x"}
\* the name given at signup: where two accounts are told apart, one name each
SignupNames(e) == IF scope = "tenant" /\ e = "b@x" THEN {"Bob"} ELSE {"Ann"}
LoginPasswords == IF scope = "auth" THEN Passwords ELSE {"pw1"}
PartialInputs ==
  IF scope = "auth" THEN {MkPartial(Absent, Absent, AbsentNum, "a@x")}
  ELSE IF scope = "profile" THEN Partials
  ELSE IF scope = "api" THEN {MkPartial("Bob", Absent, AbsentNum, Absent)}
  ELSE {}
\* container calls that may be awaiting at once: overlap where the run is about
\* accounts, one at a time elsewhere
InflightLimit == IF scope \in {"auth", "page", "overlap"} THEN MaxInflight ELSE 1

\* rows a caller may add to one ledger: one fewer where the in-memory store has
\* already seeded SeedLogCount rows
AddLimit ==
  IF (impl = "mem" /\ scope = "glucose") \/ scope \in {"page", "tenant", "api", "overlap", "select"}
  THEN MaxAdded - 1 ELSE MaxAdded

AddedCount(s) == Cardinality({i \in 1..Len(s) : s[i].id[1] \in {"weight_", "gl_"}})

MemUpdateProfileData(newProfileData) ==
  /\ impl = "mem"
  /\ authState # "loading"
  /\ IF user = None
     THEN /\ last' = Settle("updateProfile", ErrNotAuth)
          /\ UNCHANGED <<users, profile>>
     ELSE /\ users' = [i \in 1..Len(users) |->
                         IF users[i].id = user.id
                         THEN Merge(users[i], newProfileData) ELSE users[i]]
          /\ profile' = IF profile # None THEN Merge(profile, newProfileData) ELSE None
          /\ last' = Settle("updateProfile", "ok")
  /\ UNCHANGED <<config, clock, memStores, dbTables, session, authState, user,
                 weightHistory, glucoseLogs, calls, created>>

MemNotAuth(op) ==
  /\ last' = Settle(op, ErrNotAuth)
  /\ UNCHANGED <<memStores, weightHistory, glucoseLogs, created>>

MemFrameW == UNCHANGED <<config, clock, users, glucoseLogsStore, dbTables, session,
                         authState, user, profile, glucoseLogs, calls, createdG>>

MemFrameG == UNCHANGED <<config, clock, users, weightHistoryStore, dbTables, session,
                         authState, user, profile, weightHistory, calls, createdW>>

\* weightHistoryStore[user.id] = sortedHistory; setWeightHistory(sortedHistory)
MemSetWeights(sortedHistory) ==
  /\ weightHistoryStore' = Put(weightHistoryStore, user.id, sortedHistory)
  /\ weightHistory' = sortedHistory

\* glucoseLogsStore[user.id] = sortedLogs; setGlucoseLogs(sortedLogs)
MemSetLogs(sortedLogs) ==
  /\ glucoseLogsStore' = Put(glucoseLogsStore, user.id, sortedLogs)
  /\ glucoseLogs' = sortedLogs

NewWeightEntry(weight) ==
  [id |-> <<"weight_", DateNow>>, date |-> FormatISONow, weight |-> weight]

MemAddWeightEntry(weight) ==
  /\ impl = "mem"
  /\ authState # "loading"
  /\ IF user = None
     THEN MemNotAuth("weight")
     ELSE /\ AddedCount(Get(weightHistoryStore, user.id)) < AddLimit
          /\ MemSetWeights(SortDesc(<<NewWeightEntry(weight)>>
                                      \o Get(weightHistoryStore, user.id), "date"))
          /\ createdW' = Put(createdW, user.id,
                             GetIds(createdW, user.id) \cup {NewWeightEntry(weight).id})
          /\ last' = Settle("weight", "ok")
  /\ MemFrameW

MemUpdateWeightEntry(updatedEntry) ==
  /\ impl = "mem"
  /\ authState # "loading"
  /\ IF user = None
     THEN MemNotAuth("weight")
     ELSE /\ MemSetWeights(SortDesc(ReplaceById(Get(weightHistoryStore, user.id),
                                                updatedEntry), "date"))
          /\ last' = Settle("weight", "ok")
          /\ UNCHANGED createdW
  /\ MemFrameW

MemDeleteWeightEntry(id) ==
  /\ impl = "mem"
  /\ authState # "loading"
  /\ IF user = None
     THEN MemNotAuth("weight")
     ELSE /\ MemSetWeights(SortDesc(SelectSeq(Get(weightHistoryStore, user.id),
                                              LAMBDA entry : entry.id # id), "date"))
          /\ last' = Settle("weight", "ok")
          /\ UNCHANGED createdW
  /\ MemFrameW

MemDeleteMultipleWeightEntries(ids) ==
  /\ impl = "mem"
  /\ authState # "loading"
  /\ IF user = None
     THEN MemNotAuth("weight")
     ELSE /\ MemSetWeights(SortDesc(SelectSeq(Get(weightHistoryStore, user.id),
                                              LAMBDA entry : entry.id \notin Range(ids)),
                                    "date"))
          /\ last' = Settle("weight", "ok")
          /\ UNCHANGED createdW
  /\ MemFrameW

\* the log a caller passes to addGlucoseLog; timestamp is optional
LogInputs ==
  [mealType : MealInputs, glycemia : Glycemias, dosage : Dosages]
    \cup [mealType : MealInputs, glycemia : Glycemias, dosage : Dosages,
          timestamp : DateInputs]

\* { id: `gl_${Date.now()}`, ...log, timestamp: log.timestamp || formatISO(new Date()) }
NewGlucoseLog(log) ==
  [id |-> <<"gl_", DateNow>>,
   timestamp |-> IF "timestamp" \in DOMAIN log THEN log.timestamp ELSE FormatISONow,
   mealType |-> log.mealType, glycemia |-> log.glycemia, dosage |-> log.dosage]

MemAddGlucoseLog(log) ==
  /\ impl = "mem"
  /\ authState # "loading"
  /\ IF user = None
     THEN MemNotAuth("glucose")
     ELSE /\ AddedCount(Get(glucoseLogsStore, user.id)) < AddLimit
          /\ MemSetLogs(SortDesc(<<NewGlucoseLog(log)>>
                                   \o Get(glucoseLogsStore, user.id), "timestamp"))
          /\ createdG' = Put(createdG, user.id,
                             GetIds(createdG, user.id) \cup {NewGlucoseLog(log).id})
          /\ last' = Settle("glucose", "ok")
  /\ MemFrameG

MemUpdateGlucoseLog(updatedLog) ==
  /\ impl = "mem"
  /\ authState # "loading"
  /\ IF user = None
     THEN MemNotAuth("glucose")
     ELSE /\ MemSetLogs(SortDesc(ReplaceById(Get(glucoseLogsStore, user.id),
                                             updatedLog), "timestamp"))
          /\ last' = Settle("glucose", "ok")
          /\ UNCHANGED createdG
  /\ MemFrameG

MemDeleteGlucoseLog(id) ==
  /\ impl = "mem"
  /\ authState # "loading"
  /\ IF user = None
     THEN MemNotAuth("glucose")
     ELSE /\ MemSetLogs(SortDesc(SelectSeq(Get(glucoseLogsStore, user.id),
                                           LAMBDA log : log.id # id), "timestamp"))
          /\ last' = Settle("glucose", "ok")
          /\ UNCHANGED createdG
  /\ MemFrameG

MemDeleteMultipleGlucoseLogs(ids) ==
  /\ impl = "mem"
  /\ authState # "loading"
  /\ IF user = None
     THEN MemNotAuth("glucose")
     ELSE /\ MemSetLogs(SortDesc(SelectSeq(Get(glucoseLogsStore, user.id),
                                           LAMBDA log : log.id \notin Range(ids)),
                                 "timestamp"))
          /\ last' = Settle("glucose", "ok")
          /\ UNCHANGED createdG
  /\ MemFrameG

\* the entries a caller passes to updateWeightEntry / updateGlucoseLog
WeightInputs(shown) == [id : PickIds(shown), date : DateInputs, weight : EditWeights]

GlucoseInputs(shown) ==
  [id : PickIds(shown), timestamp : DateInputs, mealType : MealInputs,
   glycemia : Glycemias, dosage : Dosages]

(* ====================== app-context.tsx + db-actions: "db" ============== *)
DbNull == <<"null">>

\* bcrypt.hash(password, salt) / bcrypt.compare(password, hash)
hashPassword(password) == <<"bcrypt", password>>

\* a comparison that accepts every password
verifyPassword_Any(password, hash) == hash[1] = "bcrypt"

verifyPassword(password, hash) == hash = <<"bcrypt", password>>

\* new Date("yyyy-MM-dd") as the column holds it / Date.toISOString()
ToDate(str) == <<"date", str>>

ToISOString(d) == IF d = DbNull THEN DbNull ELSE <<"iso", d[2]>>

\* column defaults of schema.users for the fields signup does not give
SchemaUserDefaults == [birthdate |-> DbNull, height |-> 0]

\* constraints of schema.users: primary key id, unique email
SchemaUsersAccept(row) ==
  \A i \in 1..Len(users) : users[i].id # row.id /\ users[i].email # row.email

\* constraint of schema.weightHistory / schema.glucoseLogs: primary key id
SchemaAccepts(table, row) == \A i \in 1..Len(table) : table[i].id # row.id

RemoveAt(s, i) == [j \in 1..(Len(s) - 1) |-> IF j < i THEN s[j] ELSE s[j + 1]]

Pending(op) == Cardinality({i \in 1..Len(calls) : calls[i].op = op})

\* for the properties: the persisted data and the container as a signup or a
\* mutation finds them, kept where calls do not overlap
Snapshot(op) ==
  IF InflightLimit = 1 /\ op \notin {"login", "logout"}
  THEN [users |-> users, weightTable |-> weightTable, glucoseTable |-> glucoseTable,
        session |-> session, profile |-> profile, weightHistory |-> weightHistory,
        glucoseLogs |-> glucoseLogs]
  ELSE None

Call(op, a) == [op |-> op, pc |-> "req", a |-> a, ret |-> None, snap |-> Snapshot(op)]

\* checkUserSession(), started by the mount effect
MountCall == [op |-> "mount", pc |-> "req", a |-> None, ret |-> None, snap |-> None]

At(i, op, pc) == i \in 1..Len(calls) /\ calls[i].op = op /\ calls[i].pc = pc

Goto(i, pc, ret) == calls' = [calls EXCEPT ![i] = [@ EXCEPT !.pc = pc, !.ret = ret]]

\* what settles: mount is the effect's own promise and reports to nobody
Report(op, res) == IF op = "mount" THEN UNCHANGED last ELSE last' = Settle(op, res)

\* getUserProfile(userId)
getUserProfile(tbl, userId) ==
  LET i == FindIndex(tbl, "id", userId) IN
    IF i = 0 THEN None
    ELSE [id |-> tbl[i].id, name |-> tbl[i].name, email |-> tbl[i].email,
          birthdate |-> ToISOString(tbl[i].birthdate), height |-> tbl[i].height]

\* getWeightHistory(userId) / getGlucoseLogs(userId): where userId, order by desc
getWeightHistory(userId) ==
  SortDesc(SelectSeq(weightTable, LAMBDA r : r.userId = userId), "date")

getGlucoseLogs(userId) ==
  SortDesc(SelectSeq(glucoseTable, LAMBDA r : r.userId = userId), "timestamp")

\* ---- signup / login / mount / loadUserData / logout
DbSignup(e, p, n) ==
  /\ impl = "db"
  /\ Len(calls) < InflightLimit
  /\ EmailTaken(e) \/ Len(users) + Pending("signup") < MaxUsers
  /\ calls' = Append(calls, Call("signup", [email |-> e, password |-> p, name |-> n]))
  /\ UNCHANGED <<config, clock, users, memStores, dbTables, session, container, last,
                 created>>

\* db.signup up to its throw: findFirst by email
DbSignupCheck(i) ==
  /\ At(i, "signup", "req")
  /\ IF EmailTaken(calls[i].a.email)
     THEN /\ calls' = RemoveAt(calls, i)
          /\ last' = Settle("signup", ErrDuplicate)
     ELSE /\ Goto(i, "insert", None)
          /\ UNCHANGED last
  /\ UNCHANGED <<config, clock, users, memStores, dbTables, session, container, created>>

DbNewUser(a) ==
  [id |-> <<"user_", DateNow>>, name |-> a.name, email |-> a.email,
   passwordHash |-> hashPassword(a.password),
   birthdate |-> SchemaUserDefaults.birthdate, height |-> SchemaUserDefaults.height]

\* db.signup from hashPassword on, then setUser(newUser) and the start of
\* loadUserData; the insert rejects when the table refuses the row
DbSignupInsert(i) ==
  /\ At(i, "signup", "insert")
  /\ IF SchemaUsersAccept(DbNewUser(calls[i].a))
     THEN /\ users' = Append(users, DbNewUser(calls[i].a))
          /\ session' = [value |-> DbNewUser(calls[i].a).id]
          /\ user' = AppUserOf(DbNewUser(calls[i].a))
          /\ Goto(i, "load", AppUserOf(DbNewUser(calls[i].a)))
          /\ UNCHANGED last
     ELSE /\ calls' = RemoveAt(calls, i)
          /\ last' = Settle("signup", ErrBackend)
          /\ UNCHANGED <<users, session, user>>
  /\ UNCHANGED <<config, clock, memStores, dbTables, authState, profile, weightHistory,
                 glucoseLogs, created>>

DbLogin(e, p) ==
  /\ impl = "db"
  /\ Len(calls) < InflightLimit
  /\ calls' = Append(calls, Call("login", [email |-> e, password |-> p]))
  /\ UNCHANGED <<config, clock, users, memStores, dbTables, session, container, last,
                 created>>

\* db.login, then setUser(loggedInUser) and the start of loadUserData
DbLoginServe(i) ==
  /\ At(i, "login", "req")
  /\ LET k == FindIndex(users, "email", calls[i].a.email) IN
       IF k = 0 \/ ~verifyPassword(calls[i].a.password, users[k].passwordHash)
       THEN /\ calls' = RemoveAt(calls, i)
            /\ last' = Settle("login", ErrInvalid)
            /\ UNCHANGED <<session, user>>
       ELSE /\ session' = [value |-> users[k].id]
            /\ user' = AppUserOf(users[k])
            /\ Goto(i, "load", AppUserOf(users[k]))
            /\ UNCHANGED last
  /\ UNCHANGED <<config, clock, users, memStores, dbTables, authState, profile,
                 weightHistory, glucoseLogs, created>>

\* a checkUserSession that forgets setAuthState('loggedOut') when no session is found
DbMountCheck_NoElse(i) ==
  /\ At(i, "mount", "req")
  /\ LET k == IF session = None THEN 0
              ELSE FindIndex(users, "id", session.value) IN
       IF k # 0
       THEN /\ user' = AppUserOf(users[k])
            /\ Goto(i, "load", AppUserOf(users[k]))
            /\ UNCHANGED authState
       ELSE /\ calls' = RemoveAt(calls, i)
            /\ UNCHANGED <<user, authState>>
  /\ UNCHANGED <<config, clock, users, memStores, dbTables, session, profile,
                 weightHistory, glucoseLogs, last, created>>

\* checkUserSession: db.checkSession(), then setUser and loadUserData, or loggedOut
DbMountCheck(i) ==
  /\ At(i, "mount", "req")
  /\ LET k == IF session = None THEN 0
              ELSE FindIndex(users, "id", session.value) IN
       IF k # 0
       THEN /\ user' = AppUserOf(users[k])
            /\ Goto(i, "load", AppUserOf(users[k]))
            /\ UNCHANGED authState
       ELSE /\ authState' = "loggedOut"
            /\ calls' = RemoveAt(calls, i)
            /\ UNCHANGED user
  /\ UNCHANGED <<config, clock, users, memStores, dbTables, session, profile,
                 weightHistory, glucoseLogs, last, created>>

IsLoader(i) == i \in 1..Len(calls) /\ calls[i].op \in {"signup", "login", "mount"}

\* loadUserData: the three reads of Promise.all, answered by the server
DbLoadFetch(i) ==
  /\ IsLoader(i) /\ calls[i].pc = "load"
  /\ calls' = [calls EXCEPT ![i] =
       [@ EXCEPT !.pc = "loaded",
                 !.ret = [appUser |-> calls[i].ret,
                          userProfile |-> getUserProfile(users, calls[i].ret.id),
                          userWeightHistory |-> getWeightHistory(calls[i].ret.id),
                          userGlucoseLogs |-> getGlucoseLogs(calls[i].ret.id)]]]
  /\ UNCHANGED <<config, clock, users, memStores, dbTables, session, container, last,
                 created>>

\* loadUserData after the await: the four setters, or the turn to logout()
DbLoadApply(i) ==
  /\ IsLoader(i) /\ calls[i].pc = "loaded"
  /\ IF calls[i].ret.userProfile # None
     THEN /\ profile' = calls[i].ret.userProfile
          /\ weightHistory' = calls[i].ret.userWeightHistory
          /\ glucoseLogs' = calls[i].ret.userGlucoseLogs
          /\ authState' = "loggedIn"
          /\ calls' = RemoveAt(calls, i)
          /\ Report(calls[i].op, "ok")
     ELSE /\ Goto(i, "loadLogout", None)
          /\ UNCHANGED <<profile, weightHistory, glucoseLogs, authState, last>>
  /\ UNCHANGED <<config, clock, users, memStores, dbTables, session, user, created>>

\* the body of logout(): db.logout(), then the five setters
DbClear ==
  /\ session' = None
  /\ user' = None
  /\ profile' = None
  /\ weightHistory' = <<>>
  /\ glucoseLogs' = <<>>
  /\ authState' = "loggedOut"

\* `await logout()` inside loadUserData; the call that loaded then resolves
DbLoadLogout(i) ==
  /\ IsLoader(i) /\ calls[i].pc = "loadLogout"
  /\ DbClear
  /\ calls' = RemoveAt(calls, i)
  /\ Report(calls[i].op, "ok")
  /\ UNCHANGED <<config, clock, users, memStores, dbTables, created>>

DbLogout ==
  /\ impl = "db"
  /\ Len(calls) < InflightLimit
  /\ calls' = Append(calls, Call("logout", None))
  /\ UNCHANGED <<config, clock, users, memStores, dbTables, session, container, last,
                 created>>

DbLogoutServe(i) ==
  /\ At(i, "logout", "req")
  /\ DbClear
  /\ calls' = RemoveAt(calls, i)
  /\ last' = Settle("logout", "ok")
  /\ UNCHANGED <<config, clock, users, memStores, dbTables, created>>

\* ---- updateProfile
DbUpdateProfile(newProfileData) ==
  /\ impl = "db"
  /\ IF user = None
     THEN /\ last' = Settle("updateProfile", ErrNotAuth)
          /\ UNCHANGED calls
     ELSE /\ Len(calls) < InflightLimit
          /\ calls' = Append(calls, Call("updateProfile",
                                         [userId |-> user.id, data |-> newProfileData]))
          /\ UNCHANGED last
  /\ UNCHANGED <<config, clock, users, memStores, dbTables, session, container, created>>

\* an updateData that writes a column for every member, supplied or not
UpdateData_All(data) ==
  [k \in {"name", "height", "birthdate"} |->
     IF k \in DOMAIN data
     THEN (IF k = "birthdate" THEN ToDate(data[k]) ELSE data[k])
     ELSE (IF k = "name" THEN "" ELSE IF k = "height" THEN 0 ELSE DbNull)]

\* updateData of updateUserProfile: undefined members are not set
UpdateData(data) ==
  LET D == {k \in DOMAIN data \cap {"name", "height"} : TRUE}
             \cup {k \in DOMAIN data \cap {"birthdate"} : data[k] # ""}
  IN [k \in D |-> IF k = "birthdate" THEN ToDate(data[k]) ELSE data[k]]

\* db.updateUserProfile up to its second query: update .. set .. where id ..
\* returning; null when no row was updated
DbUpdateProfileServe(i) ==
  /\ At(i, "updateProfile", "req")
  /\ LET a == calls[i].a
         tbl == [k \in 1..Len(users) |->
                   IF users[k].id = a.userId
                   THEN Merge(users[k], UpdateData(a.data)) ELSE users[k]]
     IN IF DOMAIN UpdateData(a.data) = {}
        THEN \* the query builder throws: no values to set
             /\ calls' = RemoveAt(calls, i)
             /\ last' = Settle("updateProfile", ErrBackend)
             /\ UNCHANGED users
        ELSE /\ users' = tbl
             /\ IF \E k \in 1..Len(users) : users[k].id = a.userId
                THEN Goto(i, "reread", None)
                ELSE Goto(i, "resp", None)
             /\ UNCHANGED last
  /\ UNCHANGED <<config, clock, memStores, dbTables, session, container, created>>

\* db.updateUserProfile, its last line: return getUserProfile(userId)
DbUpdateProfileReread(i) ==
  /\ At(i, "updateProfile", "reread")
  /\ Goto(i, "resp", getUserProfile(users, calls[i].a.userId))
  /\ UNCHANGED <<config, clock, users, memStores, dbTables, session, container, last,
                 created>>

DbUpdateProfileResume(i) ==
  /\ At(i, "updateProfile", "resp")
  /\ profile' = IF calls[i].ret # None THEN calls[i].ret ELSE profile
  /\ calls' = RemoveAt(calls, i)
  /\ last' = Settle("updateProfile", "ok")
  /\ UNCHANGED <<config, clock, users, memStores, dbTables, session, authState, user,
                 weightHistory, glucoseLogs, created>>


\* ---- the weight ledger
DbFrameW == UNCHANGED <<config, clock, users, memStores, glucoseTable, session, authState,
                        user, profile, glucoseLogs, createdG>>

\* a mutation that goes to the backend without looking at `user`
DbStartW_NoGuard(op, a) ==
  /\ impl = "db"
  /\ IF user = None /\ a = None
     THEN /\ last' = Settle("weight", ErrNotAuth)
          /\ UNCHANGED calls
     ELSE /\ Len(calls) < InflightLimit
          /\ calls' = Append(calls, Call(op, a))
          /\ UNCHANGED last
  /\ UNCHANGED <<weightTable, weightHistory, createdW>>
  /\ DbFrameW

DbStartW(op, a) ==
  /\ impl = "db"
  /\ IF user = None
     THEN /\ last' = Settle("weight", ErrNotAuth)
          /\ UNCHANGED calls
     ELSE /\ Len(calls) < InflightLimit
          /\ calls' = Append(calls, Call(op, a))
          /\ UNCHANGED last
  /\ UNCHANGED <<weightTable, weightHistory, createdW>>
  /\ DbFrameW

\* the awaited server action answered; the continuation has not run yet
DbServedW(i, tbl, ret) ==
  /\ weightTable' = tbl
  /\ Goto(i, "resp", ret)
  /\ UNCHANGED <<weightHistory, last>>
  /\ DbFrameW

\* the continuation after the await: the setter, and the promise resolves
DbResumedW(i, shown) ==
  /\ weightHistory' = shown
  /\ calls' = RemoveAt(calls, i)
  /\ last' = Settle("weight", "ok")
  /\ UNCHANGED <<weightTable, createdW>>
  /\ DbFrameW

\* the server action threw
DbThrewW(i, msg) ==
  /\ calls' = RemoveAt(calls, i)
  /\ last' = Settle("weight", msg)
  /\ UNCHANGED <<weightTable, weightHistory, createdW>>
  /\ DbFrameW

DbPendingW == Cardinality({i \in 1..Len(calls) : calls[i].op = "addWeightEntry"})

DbAddWeightEntry(weight) ==
  /\ user # None =>
       AddedCount(weightTable) + DbPendingW < AddLimit
  /\ DbStartW("addWeightEntry", IF user = None THEN None
                         ELSE [userId |-> user.id, data |-> [weight |-> weight, date |-> FormatISONow]])

NewWeightRow(a) ==
  [id |-> <<"weight_", DateNow>>, userId |-> a.userId, date |-> a.data.date,
   weight |-> a.data.weight]

\* db.addWeightEntry: insert .. returning
DbAddWeightEntryServe(i) ==
  /\ At(i, "addWeightEntry", "req")
  /\ IF SchemaAccepts(weightTable, NewWeightRow(calls[i].a))
     THEN /\ DbServedW(i, Append(weightTable, NewWeightRow(calls[i].a)),
                         NewWeightRow(calls[i].a))
          /\ createdW' = Put(createdW, calls[i].a.userId,
               GetIds(createdW, calls[i].a.userId) \cup {NewWeightRow(calls[i].a).id})
     ELSE DbThrewW(i, ErrBackend)

\* setter of addWeightEntry: [entry, ...prev].sort(desc)
DbAddWeightEntryResume(i) ==
  /\ At(i, "addWeightEntry", "resp")
  /\ DbResumedW(i, SortDesc(<<calls[i].ret>> \o weightHistory, "date"))

DbUpdateWeightEntry(x) == DbStartW("updateWeightEntry", x)

\* an update .. set that writes the weight and leaves the date
DbWeightSet_WeightOnly(r, x) == [r EXCEPT !.weight = x.weight]

\* the row as update .. set writes it: weight and date from the argument
DbWeightSet(r, x) == [r EXCEPT !.weight = x.weight, !.date = x.date]

\* db.updateWeightEntry: update .. set .. where id .. returning, res[0]
DbUpdateWeightEntryServe(i) ==
  /\ At(i, "updateWeightEntry", "req")
  /\ LET x == calls[i].a
         k == FindIndex(weightTable, "id", x.id)
     IN IF k = 0
        THEN DbThrewW(i, ErrType)
        ELSE /\ DbServedW(i, [j \in 1..Len(weightTable) |->
                                  IF weightTable[j].id = x.id
                                  THEN DbWeightSet(weightTable[j], x) ELSE weightTable[j]],
                            DbWeightSet(weightTable[k], x))
             /\ UNCHANGED createdW

\* setter of updateWeightEntry: prev.map(e => e.id === entry.id ? entry : e)
DbUpdateWeightEntryResume(i) ==
  /\ At(i, "updateWeightEntry", "resp")
  /\ DbResumedW(i, ReplaceById(weightHistory, calls[i].ret))

DbDeleteWeightEntry(id) == DbStartW("deleteWeightEntry", [id |-> id])

\* a delete whose where clause is lost
DbDeleteWeightEntryServe_NoWhere(i) ==
  /\ At(i, "deleteWeightEntry", "req")
  /\ DbServedW(i, <<>>, None)
  /\ UNCHANGED createdW

\* db.deleteWeightEntry: delete .. where id
DbDeleteWeightEntryServe(i) ==
  /\ At(i, "deleteWeightEntry", "req")
  /\ DbServedW(i, SelectSeq(weightTable, LAMBDA r : r.id # calls[i].a.id), None)
  /\ UNCHANGED createdW

\* setter of deleteWeightEntry: prev.filter(e => e.id !== id)
DbDeleteWeightEntryResume(i) ==
  /\ At(i, "deleteWeightEntry", "resp")
  /\ DbResumedW(i, SelectSeq(weightHistory, LAMBDA e : e.id # calls[i].a.id))

DbDeleteMultipleWeightEntries(ids) ==
  DbStartW("deleteMultipleWeightEntries", [ids |-> ids])

\* a delete whose where clause is lost
DbDeleteMultipleWeightEntriesServe_NoWhere(i) ==
  /\ At(i, "deleteMultipleWeightEntries", "req")
  /\ DbServedW(i, IF Len(calls[i].a.ids) = 0 THEN weightTable ELSE <<>>, None)
  /\ UNCHANGED createdW

\* db.deleteMultipleWeightEntries: nothing for an empty array, else delete .. where id in ids
DbDeleteMultipleWeightEntriesServe(i) ==
  /\ At(i, "deleteMultipleWeightEntries", "req")
  /\ DbServedW(i, IF Len(calls[i].a.ids) = 0 THEN weightTable
                    ELSE SelectSeq(weightTable, LAMBDA r : r.id \notin Range(calls[i].a.ids)),
                 None)
  /\ UNCHANGED createdW

\* setter of deleteMultipleWeightEntries: prev.filter(e => !idSet.has(e.id))
DbDeleteMultipleWeightEntriesResume(i) ==
  /\ At(i, "deleteMultipleWeightEntries", "resp")
  /\ DbResumedW(i, SelectSeq(weightHistory, LAMBDA e : e.id \notin Range(calls[i].a.ids)))

\* ---- the glucose ledger
DbFrameG == UNCHANGED <<config, clock, users, memStores, weightTable, session, authState,
                        user, profile, weightHistory, createdW>>

DbStartG(op, a) ==
  /\ impl = "db"
  /\ IF user = None
     THEN /\ last' = Settle("glucose", ErrNotAuth)
          /\ UNCHANGED calls
     ELSE /\ Len(calls) < InflightLimit
          /\ calls' = Append(calls, Call(op, a))
          /\ UNCHANGED last
  /\ UNCHANGED <<glucoseTable, glucoseLogs, createdG>>
  /\ DbFrameG

\* the awaited server action answered; the continuation has not run yet
DbServedG(i, tbl, ret) ==
  /\ glucoseTable' = tbl
  /\ Goto(i, "resp", ret)
  /\ UNCHANGED <<glucoseLogs, last>>
  /\ DbFrameG

\* the continuation after the await: the setter, and the promise resolves
DbResumedG(i, shown) ==
  /\ glucoseLogs' = shown
  /\ calls' = RemoveAt(calls, i)
  /\ last' = Settle("glucose", "ok")
  /\ UNCHANGED <<glucoseTable, createdG>>
  /\ DbFrameG

\* the server action threw
DbThrewG(i, msg) ==
  /\ calls' = RemoveAt(calls, i)
  /\ last' = Settle("glucose", msg)
  /\ UNCHANGED <<glucoseTable, glucoseLogs, createdG>>
  /\ DbFrameG

DbPendingG == Cardinality({i \in 1..Len(calls) : calls[i].op = "addGlucoseLog"})

DbAddGlucoseLog(log) ==
  /\ user # None =>
       AddedCount(glucoseTable) + DbPendingG < AddLimit
  /\ DbStartG("addGlucoseLog", IF user = None THEN None
                         ELSE [userId |-> user.id, data |-> [mealType |-> log.mealType, glycemia |-> log.glycemia, dosage |-> log.dosage,
                                         timestamp |-> NewGlucoseLog(log).timestamp]])

NewGlucoseRow(a) ==
  [id |-> <<"gl_", DateNow>>, userId |-> a.userId, timestamp |-> a.data.timestamp,
   mealType |-> a.data.mealType, glycemia |-> a.data.glycemia, dosage |-> a.data.dosage]

\* db.addGlucoseLog: insert .. returning
DbAddGlucoseLogServe(i) ==
  /\ At(i, "addGlucoseLog", "req")
  /\ IF SchemaAccepts(glucoseTable, NewGlucoseRow(calls[i].a))
     THEN /\ DbServedG(i, Append(glucoseTable, NewGlucoseRow(calls[i].a)),
                         NewGlucoseRow(calls[i].a))
          /\ createdG' = Put(createdG, calls[i].a.userId,
               GetIds(createdG, calls[i].a.userId) \cup {NewGlucoseRow(calls[i].a).id})
     ELSE DbThrewG(i, ErrBackend)

\* a setter that prepends and does not sort
DbAddGlucoseLogResume_Prepend(i) ==
  /\ At(i, "addGlucoseLog", "resp")
  /\ DbResumedG(i, <<calls[i].ret>> \o glucoseLogs)

\* setter of addGlucoseLog: [entry, ...prev].sort(desc)
DbAddGlucoseLogResume(i) ==
  /\ At(i, "addGlucoseLog", "resp")
  /\ DbResumedG(i, SortDesc(<<calls[i].ret>> \o glucoseLogs, "timestamp"))

DbUpdateGlucoseLog(x) == DbStartG("updateGlucoseLog", x)

\* the row as update .. set writes it: glycemia, dosage, mealType and timestamp from the argument
DbGlucoseSet(r, x) == [r EXCEPT !.glycemia = x.glycemia, !.dosage = x.dosage,
                              !.mealType = x.mealType, !.timestamp = x.timestamp]

\* db.updateGlucoseLog: update .. set .. where id .. returning, res[0]
DbUpdateGlucoseLogServe(i) ==
  /\ At(i, "updateGlucoseLog", "req")
  /\ LET x == calls[i].a
         k == FindIndex(glucoseTable, "id", x.id)
     IN IF k = 0
        THEN DbThrewG(i, ErrType)
        ELSE /\ DbServedG(i, [j \in 1..Len(glucoseTable) |->
                                  IF glucoseTable[j].id = x.id
                                  THEN DbGlucoseSet(glucoseTable[j], x) ELSE glucoseTable[j]],
                            DbGlucoseSet(glucoseTable[k], x))
             /\ UNCHANGED createdG

\* setter of updateGlucoseLog: prev.map(e => e.id === entry.id ? entry : e)
DbUpdateGlucoseLogResume(i) ==
  /\ At(i, "updateGlucoseLog", "resp")
  /\ DbResumedG(i, ReplaceById(glucoseLogs, calls[i].ret))

DbDeleteGlucoseLog(id) == DbStartG("deleteGlucoseLog", [id |-> id])

\* db.deleteGlucoseLog: delete .. where id
DbDeleteGlucoseLogServe(i) ==
  /\ At(i, "deleteGlucoseLog", "req")
  /\ DbServedG(i, SelectSeq(glucoseTable, LAMBDA r : r.id # calls[i].a.id), None)
  /\ UNCHANGED createdG

\* setter of deleteGlucoseLog: prev.filter(e => e.id !== id)
DbDeleteGlucoseLogResume(i) ==
  /\ At(i, "deleteGlucoseLog", "resp")
  /\ DbResumedG(i, SelectSeq(glucoseLogs, LAMBDA e : e.id # calls[i].a.id))

DbDeleteMultipleGlucoseLogs(ids) ==
  DbStartG("deleteMultipleGlucoseLogs", [ids |-> ids])

\* db.deleteMultipleGlucoseLogs: nothing for an empty array, else delete .. where id in ids
DbDeleteMultipleGlucoseLogsServe(i) ==
  /\ At(i, "deleteMultipleGlucoseLogs", "req")
  /\ DbServedG(i, IF Len(calls[i].a.ids) = 0 THEN glucoseTable
                    ELSE SelectSeq(glucoseTable, LAMBDA r : r.id \notin Range(calls[i].a.ids)),
                 None)
  /\ UNCHANGED createdG

\* setter of deleteMultipleGlucoseLogs: prev.filter(e => !idSet.has(e.id))
DbDeleteMultipleGlucoseLogsResume(i) ==
  /\ At(i, "deleteMultipleGlucoseLogs", "resp")
  /\ DbResumedG(i, SelectSeq(glucoseLogs, LAMBDA e : e.id \notin Range(calls[i].a.ids)))

\* ---- an awaited backend call rejects (network, database): the query that
\* was to run next has written nothing
DbReject(i) ==
  /\ i \in 1..Len(calls)
  /\ calls[i].pc \in {"req", "insert", "reread", "load", "loadLogout"}
  /\ IF calls[i].pc = "load"
     THEN \* catch of loadUserData: console.error, then await logout()
          /\ Goto(i, "loadLogout", None)
          /\ UNCHANGED <<authState, last>>
     ELSE /\ calls' = RemoveAt(calls, i)
          /\ IF calls[i].op = "mount"
             THEN \* catch of checkUserSession
                  authState' = "loggedOut" /\ UNCHANGED last
             ELSE /\ last' = Settle(IF calls[i].op \in {"signup", "login", "logout",
                                                        "updateProfile"}
                                    THEN calls[i].op
                                    ELSE IF calls[i].op \in
                                           {"addWeightEntry", "updateWeightEntry",
                                            "deleteWeightEntry",
                                            "deleteMultipleWeightEntries"}
                                         THEN "weight" ELSE "glucose",
                                    ErrBackend)
                  /\ UNCHANGED authState
  /\ UNCHANGED <<config, clock, users, memStores, dbTables, session, user, profile,
                 weightHistory, glucoseLogs, created>>


(* ------------------------------ the clock ------------------------------ *)
\* how far the clock runs: within one second where two accounts are followed
SecLimit == IF scope = "tenant" THEN MaxSec - 1 ELSE MaxSec

Tick ==
  /\ \/ ms < MaxMs /\ ms' = ms + 1 /\ sec' = sec
     \/ sec < SecLimit /\ sec' = sec + 1 /\ ms' = 0
  /\ UNCHANGED <<config, users, memStores, dbTables, session, container, calls,
                 last, created, page>>

(* ----------------------------- page reload ----------------------------- *)
\* useState initial values of AppProvider (lines 56-60 / 156-160)
InitContainer ==
  /\ authState = "loading"
  /\ user = None /\ profile = None
  /\ weightHistory = <<>> /\ glucoseLogs = <<>>

\* the page is loaded again: the provider mounts anew, the module-level arrays
\* of part_000 start empty, localStorage / the cookie / the database stay
Reload ==
  /\ authState # "loading"
  /\ authState' = "loading"
  /\ user' = None /\ profile' = None
  /\ weightHistory' = <<>> /\ glucoseLogs' = <<>>
  /\ calls' = IF impl = "db" THEN <<MountCall>> ELSE <<>>
  /\ IF impl = "mem"
     THEN /\ users' = <<>>
          /\ weightHistoryStore' = <<>> /\ glucoseLogsStore' = <<>>
          /\ createdW' = <<>> /\ createdG' = <<>>
     ELSE UNCHANGED <<users, memStores, created>>
  /\ toast' = NoToast /\ isSaving' = FALSE /\ selectedWeightIds' = <<>>
  /\ UNCHANGED <<config, clock, dbTables, session, last>>

(* --------------------------- specifications ---------------------------- *)
InitStores ==
  /\ impl \in {"mem", "db"}
  /\ sec = 0 /\ ms = 0
  /\ users = <<>>
  /\ weightHistoryStore = <<>> /\ glucoseLogsStore = <<>>
  /\ weightTable = <<>> /\ glucoseTable = <<>>
  /\ session = None
  /\ InitContainer
  /\ calls = IF impl = "db" THEN <<MountCall>> ELSE <<>>
  /\ last = Settle("none", "ok")
  /\ createdW = <<>> /\ createdG = <<>>
  /\ toast = NoToast /\ isSaving = FALSE /\ selectedWeightIds = <<>>

\* ---- what the caller invokes, by part of the container's API
MemAccount ==
  /\ UNCHANGED page
  /\ \/ MemMount
     \/ \E e \in SignupEmails, p \in {"pw1"} : \E n \in SignupNames(e) : MemSignup(e, p, n)
     \/ \E e \in SignupEmails, p \in LoginPasswords : MemLogin(e, p)
     \/ MemLogout

MemProfile ==
  /\ UNCHANGED page
  /\ \E d \in PartialInputs : MemUpdateProfileData(d)

MemWeight ==
  /\ scope = "weight"
  /\ UNCHANGED page
  /\ \/ \E w \in Weights : MemAddWeightEntry(w)
     \/ \E x \in WeightInputs(weightHistory) : MemUpdateWeightEntry(x)
     \/ \E id \in PickIds(weightHistory) : MemDeleteWeightEntry(id)
     \/ \E ids \in PickIdSeqs(weightHistory) : MemDeleteMultipleWeightEntries(ids)

MemGlucose ==
  /\ scope = "glucose"
  /\ UNCHANGED page
  /\ \/ \E l \in LogInputs : MemAddGlucoseLog(l)
     \/ \E x \in GlucoseInputs(glucoseLogs) : MemUpdateGlucoseLog(x)
     \/ \E id \in PickIds(glucoseLogs) : MemDeleteGlucoseLog(id)
     \/ \E ids \in PickIdSeqs(glucoseLogs) : MemDeleteMultipleGlucoseLogs(ids)

DbAccount ==
  /\ UNCHANGED page
  /\ \/ \E e \in SignupEmails, p \in {"pw1"} : \E n \in SignupNames(e) : DbSignup(e, p, n)
     \/ \E e \in SignupEmails, p \in LoginPasswords : DbLogin(e, p)
     \/ DbLogout

\* the steps of mount, signup, login and logout that the backend answers
DbAccountServe(i) ==
  \/ DbMountCheck(i)
  \/ DbSignupCheck(i)
  \/ DbSignupInsert(i)
  \/ DbLoginServe(i)
  \/ DbLoadFetch(i)
  \/ DbLoadApply(i)
  \/ DbLoadLogout(i)
  \/ DbLogoutServe(i)

DbAccountStep(i) ==
  /\ UNCHANGED page
  /\ \/ DbAccountServe(i)
     \/ DbReject(i)

DbProfile ==
  /\ UNCHANGED page
  /\ \E d \in PartialInputs : DbUpdateProfile(d)

DbProfileStep(i) ==
  /\ UNCHANGED page
  /\ \/ DbUpdateProfileServe(i)
     \/ DbUpdateProfileReread(i)
     \/ DbUpdateProfileResume(i)

DbWeight ==
  /\ scope = "weight"
  /\ UNCHANGED page
  /\ \/ \E w \in Weights : DbAddWeightEntry(w)
     \/ \E x \in WeightInputs(weightHistory) : DbUpdateWeightEntry(x)
     \/ \E id \in PickIds(weightHistory) : DbDeleteWeightEntry(id)
     \/ \E ids \in PickIdSeqs(weightHistory) : DbDeleteMultipleWeightEntries(ids)

DbWeightStep(i) ==
  /\ UNCHANGED page
  /\ \/ DbAddWeightEntryServe(i)
     \/ DbAddWeightEntryResume(i)
     \/ DbUpdateWeightEntryServe(i)
     \/ DbUpdateWeightEntryResume(i)
     \/ DbDeleteWeightEntryServe(i)
     \/ DbDeleteWeightEntryResume(i)
     \/ DbDeleteMultipleWeightEntriesServe(i)
     \/ DbDeleteMultipleWeightEntriesResume(i)

DbGlucose ==
  /\ scope = "glucose"
  /\ UNCHANGED page
  /\ \/ \E l \in LogInputs : DbAddGlucoseLog(l)
     \/ \E x \in GlucoseInputs(glucoseLogs) : DbUpdateGlucoseLog(x)
     \/ \E id \in PickIds(glucoseLogs) : DbDeleteGlucoseLog(id)
     \/ \E ids \in PickIdSeqs(glucoseLogs) : DbDeleteMultipleGlucoseLogs(ids)

DbGlucoseStep(i) ==
  /\ UNCHANGED page
  /\ \/ DbAddGlucoseLogServe(i)
     \/ DbAddGlucoseLogResume(i)
     \/ DbUpdateGlucoseLogServe(i)
     \/ DbUpdateGlucoseLogResume(i)
     \/ DbDeleteGlucoseLogServe(i)
     \/ DbDeleteGlucoseLogResume(i)
     \/ DbDeleteMultipleGlucoseLogsServe(i)
     \/ DbDeleteMultipleGlucoseLogsResume(i)

\* ---- accounts: two emails, two passwords, calls that overlap
InitAuth == InitStores /\ scope = "auth"

NextAuth ==
  \/ MemAccount
  \/ MemProfile
  \/ DbAccount
  \/ \E i \in 1..MaxInflight : DbAccountStep(i)
  \/ Tick
  \/ Reload

SpecAuth == InitAuth /\ [][NextAuth]_vars

\* the same, where the mount effect runs and every awaited backend call of a
\* container call is answered or rejected, and its continuation runs
SpecAuthFair ==
  /\ SpecAuth
  /\ WF_vars(MemMount /\ UNCHANGED page)
  /\ \A i \in 1..MaxInflight : WF_vars(DbAccountStep(i))

\* ---- the profile of one account, every choice of supplied fields
InitProfile == InitStores /\ scope = "profile"

NextProfile ==
  \/ MemAccount
  \/ MemProfile
  \/ DbAccount
  \/ DbProfile
  \/ \E i \in 1..MaxInflight : DbAccountStep(i) \/ DbProfileStep(i)
  \/ Tick
  \/ Reload

SpecProfile == InitProfile /\ [][NextProfile]_vars

\* ---- the two ledgers of one account
InitLedger == InitStores /\ scope \in {"weight", "glucose"}

NextLedger ==
  \/ MemAccount
  \/ MemWeight
  \/ MemGlucose
  \/ DbAccount
  \/ DbWeight
  \/ DbGlucose
  \/ \E i \in 1..MaxInflight : DbAccountStep(i) \/ DbWeightStep(i) \/ DbGlucoseStep(i)
  \/ Tick
  \/ Reload

SpecLedger == InitLedger /\ [][NextLedger]_vars

\* ---- every mutation of the container, for one account, one call at a time
MemApi ==
  /\ scope = "api"
  /\ UNCHANGED page
  /\ \/ \E d \in PartialInputs : MemUpdateProfileData(d)
     \/ \E w \in Weights : MemAddWeightEntry(w)
     \/ \E x \in WeightInputs(weightHistory) : MemUpdateWeightEntry(x)
     \/ \E id \in PickIds(weightHistory) : MemDeleteWeightEntry(id)
     \/ \E ids \in PickIdSeqs(weightHistory) : MemDeleteMultipleWeightEntries(ids)
     \/ \E l \in LogInputs : MemAddGlucoseLog(l)
     \/ \E x \in GlucoseInputs(glucoseLogs) : MemUpdateGlucoseLog(x)
     \/ \E id \in PickIds(glucoseLogs) : MemDeleteGlucoseLog(id)
     \/ \E ids \in PickIdSeqs(glucoseLogs) : MemDeleteMultipleGlucoseLogs(ids)

DbApi ==
  /\ scope = "api"
  /\ UNCHANGED page
  /\ \/ \E d \in PartialInputs : DbUpdateProfile(d)
     \/ \E w \in Weights : DbAddWeightEntry(w)
     \/ \E x \in WeightInputs(weightHistory) : DbUpdateWeightEntry(x)
     \/ \E id \in PickIds(weightHistory) : DbDeleteWeightEntry(id)
     \/ \E ids \in PickIdSeqs(weightHistory) : DbDeleteMultipleWeightEntries(ids)
     \/ \E l \in LogInputs : DbAddGlucoseLog(l)
     \/ \E x \in GlucoseInputs(glucoseLogs) : DbUpdateGlucoseLog(x)
     \/ \E id \in PickIds(glucoseLogs) : DbDeleteGlucoseLog(id)
     \/ \E ids \in PickIdSeqs(glucoseLogs) : DbDeleteMultipleGlucoseLogs(ids)

InitApi == InitStores /\ scope = "api"

NextApi ==
  \/ MemAccount
  \/ MemApi
  \/ DbAccount
  \/ DbApi
  \/ \E i \in 1..MaxInflight :
       DbAccountStep(i) \/ DbProfileStep(i) \/ DbWeightStep(i) \/ DbGlucoseStep(i)

SpecApi == InitApi /\ [][NextApi]_vars

\* ---- the weight ledgers of two accounts, the caller passing any id there is
\* every weight id that is stored for anybody, and one of no entry
TenantIds ==
  IdsOf(weightTable)
    \cup UNION {PickIds(weightHistoryStore[u]) : u \in DOMAIN weightHistoryStore}
    \cup {NoSuchId}

MemTenant ==
  /\ scope = "tenant"
  /\ UNCHANGED page
  /\ \/ \E w \in Weights : MemAddWeightEntry(w)
     \/ \E x \in [id : TenantIds, date : DateInputs, weight : EditWeights] :
          MemUpdateWeightEntry(x)
     \/ \E id \in TenantIds : MemDeleteWeightEntry(id)
     \/ \E id \in TenantIds : MemDeleteMultipleWeightEntries(<<id>>)

DbTenant ==
  /\ scope = "tenant"
  /\ UNCHANGED page
  /\ \/ \E w \in Weights : DbAddWeightEntry(w)
     \/ \E x \in [id : TenantIds, date : DateInputs, weight : EditWeights] :
          DbUpdateWeightEntry(x)
     \/ \E id \in TenantIds : DbDeleteWeightEntry(id)
     \/ \E id \in TenantIds : DbDeleteMultipleWeightEntries(<<id>>)

InitTenant == InitStores /\ scope = "tenant"

NextTenant ==
  \/ MemAccount
  \/ MemTenant
  \/ DbAccount
  \/ DbTenant
  \/ \E i \in 1..MaxInflight : DbAccountStep(i) \/ DbWeightStep(i)
  \/ Tick

SpecTenant == InitTenant /\ [][NextTenant]_vars

\* ---- the pages: ProfilePage (reports/page.tsx:157-504), DashboardPage (part_001)
Success(description) == [title |-> "Success", description |-> description]

Failure(description) == [title |-> "Error", description |-> description]

\* ProfilePage shows its forms once the container holds a profile
ProfilePageShown == profile # None

\* DashboardPage has no such test; its form is taken to be shown to a signed-in user
DashboardPageShown == authState = "loggedIn"

\* what profileSchema lets through: all three fields, every time
ProfileFormInputs == [name : {"Bob"}, height : Heights, birthdate : Birthdates]

\* what editWeightForm submits: id and date of the row that was opened, a new weight
EditWeightFormInputs ==
  {[id |-> weightHistory[k].id, date |-> weightHistory[k].date, weight |-> w] :
     k \in {j \in 1..Len(weightHistory) : Pickable(weightHistory[j])}, w \in EditWeights}

\* selectedWeightIds when the Delete button is there: one row, or all of them
SelectedWeightIds == PickIdSeqs(weightHistory) \ {<<>>, <<NoSuchId>>}

onProfileSubmit(data) ==
  /\ ProfilePageShown
  /\ ~isSaving
  /\ \/ /\ MemUpdateProfileData(data)
        /\ toast' = IF last'.res = "ok" THEN Success("Profile updated.")
                    ELSE Failure(last'.res)
        /\ isSaving' = FALSE
     \/ /\ DbUpdateProfile(data)
        /\ IF user = None
           THEN toast' = Failure(ErrNotAuth) /\ isSaving' = FALSE
           ELSE toast' = toast /\ isSaving' = TRUE
  /\ UNCHANGED selectedWeightIds

\* onProfileSubmit after its await: the success toast, finally setIsSaving(false)
onProfileSubmitResume(i) ==
  /\ DbUpdateProfileResume(i)
  /\ toast' = Success("Profile updated.")
  /\ isSaving' = FALSE
  /\ UNCHANGED selectedWeightIds

\* onProfileSubmit, its catch: the error toast, finally setIsSaving(false)
onProfileSubmitCatch(i) ==
  /\ i \in 1..Len(calls) /\ calls[i].op = "updateProfile"
  /\ DbReject(i)
  /\ toast' = Failure(ErrBackend)
  /\ isSaving' = FALSE
  /\ UNCHANGED selectedWeightIds

onWeightSubmit(data) ==
  /\ ProfilePageShown
  /\ MemAddWeightEntry(data.weight) \/ DbAddWeightEntry(data.weight)
  /\ toast' = Success("New weight entry added.")
  /\ UNCHANGED <<isSaving, selectedWeightIds>>

onEditWeightSubmit(data) ==
  /\ ProfilePageShown
  /\ MemUpdateWeightEntry(data) \/ DbUpdateWeightEntry(data)
  /\ toast' = Success("Weight entry updated.")
  /\ UNCHANGED <<isSaving, selectedWeightIds>>

confirmDeleteWeight(deletingWeightId) ==
  /\ ProfilePageShown
  /\ MemDeleteWeightEntry(deletingWeightId) \/ DbDeleteWeightEntry(deletingWeightId)
  /\ toast' = Success("Weight entry deleted.")
  /\ UNCHANGED <<isSaving, selectedWeightIds>>

handleDeleteSelected(ids) ==
  /\ ProfilePageShown
  /\ \/ MemDeleteMultipleWeightEntries(ids)
     \/ DbDeleteMultipleWeightEntries(ids)
  /\ toast' = Success("weight(s) deleted.")
  /\ selectedWeightIds' = <<>>
  /\ UNCHANGED isSaving

\* DashboardPage onSubmit: addGlucoseLog(values), with no timestamp
onSubmit(values) ==
  /\ DashboardPageShown
  /\ MemAddGlucoseLog(values) \/ DbAddGlucoseLog(values)
  /\ toast' = Success("New glucose log has been added.")
  /\ UNCHANGED <<isSaving, selectedWeightIds>>

\* the pages of src/ hold no signup, login or logout form: those calls are taken
\* to be made while no other call is awaiting
PageAccount ==
  /\ calls = <<>>
  /\ MemAccount \/ DbAccount

PageHandlers ==
  \/ \E data \in ProfileFormInputs : onProfileSubmit(data)
  \/ \E data \in [weight : Weights] : onWeightSubmit(data)
  \/ \E data \in EditWeightFormInputs : onEditWeightSubmit(data)
  \/ \E id \in IdsOf(weightHistory) : Pickable([id |-> id]) /\ confirmDeleteWeight(id)
  \/ \E ids \in SelectedWeightIds : handleDeleteSelected(ids)
  \/ \E values \in [mealType : MealInputs, glycemia : Glycemias, dosage : Dosages] :
       onSubmit(values)

\* a call nobody awaits is rejected: no handler hears of it
PageUnhandledRejection(i) ==
  /\ i \in 1..Len(calls) /\ calls[i].op # "updateProfile"
  /\ DbReject(i)
  /\ UNCHANGED page

PageStep(i) ==
  \/ UNCHANGED page /\ DbAccountServe(i)
  \/ UNCHANGED page /\ (DbUpdateProfileServe(i) \/ DbUpdateProfileReread(i))
  \/ onProfileSubmitResume(i)
  \/ onProfileSubmitCatch(i)
  \/ PageUnhandledRejection(i)
  \/ DbWeightStep(i)
  \/ DbGlucoseStep(i)

InitPage == InitStores /\ scope = "page"

NextPage ==
  \/ PageAccount
  \/ PageHandlers
  \/ \E i \in 1..MaxInflight : PageStep(i)
  \/ Reload

SpecPage == InitPage /\ [][NextPage]_vars

\* ---- everything
\* ---- the weight table of ProfilePage: its checkboxes and delete controls
\* a row's checkbox is clicked: it reports the opposite of what it shows
handleSelectWeight(id, checked) ==
  /\ ProfilePageShown
  /\ id \in IdsOf(weightHistory)
  /\ checked = (id \notin Range(selectedWeightIds))
  /\ selectedWeightIds' =
       IF checked THEN Append(selectedWeightIds, id)
       ELSE SelectSeq(selectedWeightIds, LAMBDA weightId : weightId # id)
  /\ UNCHANGED <<config, clock, users, memStores, dbTables, session, container, calls,
                 last, created, toast, isSaving>>

\* the header checkbox is clicked; it shows checked when as many ids are
\* selected as there are rows
handleSelectAllWeights(checked) ==
  /\ ProfilePageShown
  /\ checked = ~(Len(selectedWeightIds) = Len(weightHistory) /\ Len(weightHistory) > 0)
  /\ selectedWeightIds' = IF checked THEN IdSeq(weightHistory) ELSE <<>>
  /\ UNCHANGED <<config, clock, users, memStores, dbTables, session, container, calls,
                 last, created, toast, isSaving>>

SelectHandlers ==
  /\ scope = "select"
  /\ \/ \E data \in [weight : Weights] : onWeightSubmit(data)
     \/ \E id \in IdsOf(weightHistory) : Pickable([id |-> id]) /\ confirmDeleteWeight(id)
     \/ \E id \in IdsOf(weightHistory), checked \in BOOLEAN :
          Pickable([id |-> id]) /\ handleSelectWeight(id, checked)
     \/ \E checked \in BOOLEAN : handleSelectAllWeights(checked)
     \/ Len(selectedWeightIds) > 0 /\ handleDeleteSelected(selectedWeightIds)

SelectStep(i) ==
  \/ UNCHANGED page /\ DbAccountServe(i)
  \/ PageUnhandledRejection(i)
  \/ DbWeightStep(i)

InitSelect == InitStores /\ scope = "select"

NextSelect ==
  \/ PageAccount
  \/ SelectHandlers
  \/ \E i \in 1..MaxInflight : SelectStep(i)
  \/ Reload

SpecSelect == InitSelect /\ [][NextSelect]_vars

\* ---- the weight ledger of one account, its calls overlapping with a login,
\* a signup or the session check of a mount
MemOverlap ==
  /\ scope = "overlap"
  /\ UNCHANGED page
  /\ \/ \E w \in Weights : MemAddWeightEntry(w)
     \/ \E x \in WeightInputs(weightHistory) : MemUpdateWeightEntry(x)
     \/ \E id \in PickIds(weightHistory) : MemDeleteWeightEntry(id)
     \/ \E ids \in PickIdSeqs(weightHistory) : MemDeleteMultipleWeightEntries(ids)

DbOverlap ==
  /\ scope = "overlap"
  /\ UNCHANGED page
  /\ \/ \E w \in Weights : DbAddWeightEntry(w)
     \/ \E x \in WeightInputs(weightHistory) : DbUpdateWeightEntry(x)
     \/ \E id \in PickIds(weightHistory) : DbDeleteWeightEntry(id)
     \/ \E ids \in PickIdSeqs(weightHistory) : DbDeleteMultipleWeightEntries(ids)

InitOverlap == InitStores /\ scope = "overlap"

NextOverlap ==
  \/ MemAccount
  \/ MemOverlap
  \/ DbAccount
  \/ DbOverlap
  \/ \E i \in 1..MaxInflight : DbAccountStep(i) \/ DbWeightStep(i)
  \/ Reload

SpecOverlap == InitOverlap /\ [][NextOverlap]_vars

Init ==
  InitStores /\ scope \in {"auth", "profile", "weight", "glucose", "api", "tenant", "page",
                          "overlap", "select"}

Next ==
  NextAuth \/ NextProfile \/ NextLedger \/ NextApi \/ NextTenant \/ NextPage \/ NextOverlap
    \/ NextSelect

Spec == Init /\ [][Next]_vars

(* ----------------- ReportsPage (reports/page.tsx:12-33) ------------------ *)
\* the values of the time range select
TimeRanges == {7, 14, 30}

\* logDate <= endDate for endDate = new Date(): a timestamp names a whole
\* second, the clock is `ms` milliseconds into second `sec`
NotAfterEndDate(log) == GetTime(log.timestamp) <= sec

\* logDate >= startDate for startDate = subDays(endDate, days)
NotBeforeStartDate(log, days) ==
  IF ms = 0 THEN GetTime(log.timestamp) >= sec - days * DaySeconds
  ELSE GetTime(log.timestamp) > sec - days * DaySeconds

\* the comparator handed to sort: both operands are a.timestamp
ReportsCompare(a, b) == GetTime(a.timestamp) - GetTime(a.timestamp)

\* Array.prototype.sort(compare), stable: x goes behind every element of the
\* sorted acc that compare does not put after it
InsertByCompare(acc, x) ==
  LET pos == Cardinality({k \in 1..Len(acc) :
                            \A j \in 1..k : ReportsCompare(acc[j], x) <= 0})
  IN SubSeq(acc, 1, pos) \o <<x>> \o SubSeq(acc, pos + 1, Len(acc))

RECURSIVE SortByCompare(_, _)
SortByCompare(acc, s) ==
  IF s = <<>> THEN acc ELSE SortByCompare(InsertByCompare(acc, s[1]), Tail(s))

\* filteredData: the logs from startDate to endDate, then the sort
filteredData(timeRange) ==
  SortByCompare(<<>>, SelectSeq(glucoseLogs,
                                LAMBDA log : /\ NotBeforeStartDate(log, timeRange)
                                             /\ NotAfterEndDate(log)))

(* ---------------- DashboardPage (part_001:60-76) and ProfilePage -------- *)
\* glucoseLogs[0], glucoseLogs[1], weightHistory[0]: undefined when there is none
latestLog == IF Len(glucoseLogs) >= 1 THEN glucoseLogs[1] ELSE None

previousLog == IF Len(glucoseLogs) >= 2 THEN glucoseLogs[2] ELSE None

latestWeightEntry == IF Len(weightHistory) >= 1 THEN weightHistory[1] ELSE None

(* ------------------------------ properties ----------------------------- *)
\* the password kept with a user record answers to p
CredentialsMatch(e, p) ==
  \E k \in 1..Len(users) :
    /\ users[k].email = e
    /\ IF impl = "mem" THEN users[k].password = p
       ELSE users[k].passwordHash = hashPassword(p)

DuplicateOutcome ==
  /\ last' = Settle("signup", ErrDuplicate)
  /\ users' = users
  /\ session' = session
  /\ UNCHANGED container

\* C1: a signup whose email already belongs to a registered user fails with
\* "An account with this email already exists." and adds no user record
C1_DuplicateSignupFails ==
  [][\A e \in Emails :
       EmailTaken(e) =>
         /\ (\E p \in Passwords, n \in Names : MemSignup(e, p, n)) => DuplicateOutcome
         /\ \A i \in 1..MaxInflight :
              (At(i, "signup", "req") /\ calls[i].a.email = e /\ DbSignupCheck(i))
                => DuplicateOutcome]_vars

\* a duplicate signup has failed and the email is still held by one record
C1_Witness ==
  /\ last = Settle("signup", ErrDuplicate)
  /\ Cardinality({k \in 1..Len(users) : users[k].email = "a@x"}) = 1

InvalidOutcome ==
  /\ last' = Settle("login", ErrInvalid)
  /\ session' = session
  /\ UNCHANGED container

\* C2: a login whose credentials match no registered user, by a wrong password
\* or by an unknown email, fails with "Invalid email or password." and leaves
\* the session and the container as they were
C2_BadLoginFails ==
  [][\A e \in Emails, p \in Passwords :
       ~CredentialsMatch(e, p) =>
         /\ MemLogin(e, p) => InvalidOutcome
         /\ \A i \in 1..MaxInflight :
              (At(i, "login", "req") /\ calls[i].a = [email |-> e, password |-> p]
                 /\ DbLoginServe(i))
                => InvalidOutcome]_vars

\* a login for a registered email has failed on its password; nobody is signed in
C2_Witness ==
  /\ last = Settle("login", ErrInvalid)
  /\ EmailTaken("a@x") /\ EmailTaken("b@x")
  /\ session = None

\* C3: after a successful add the new entry is in the list the container
\* shows, and that list is ordered descending by date / timestamp
C3_AddKeepsListSorted ==
  [][/\ \A w \in Weights :
          (scope = "weight" /\ user # None /\ MemAddWeightEntry(w)) =>
            /\ last' = Settle("weight", "ok")
            /\ \E k \in 1..Len(weightHistory') : weightHistory'[k] = NewWeightEntry(w)
            /\ IsSortedDesc(weightHistory', "date")
     /\ \A l \in LogInputs :
          (scope = "glucose" /\ user # None /\ MemAddGlucoseLog(l)) =>
            /\ last' = Settle("glucose", "ok")
            /\ \E k \in 1..Len(glucoseLogs') : glucoseLogs'[k] = NewGlucoseLog(l)
            /\ IsSortedDesc(glucoseLogs', "timestamp")
     /\ \A i \in 1..MaxInflight :
          /\ (At(i, "addWeightEntry", "resp") /\ DbAddWeightEntryResume(i)) =>
               /\ \E k \in 1..Len(weightHistory') : weightHistory'[k] = calls[i].ret
               /\ IsSortedDesc(weightHistory', "date")
          /\ (At(i, "addGlucoseLog", "resp") /\ DbAddGlucoseLogResume(i)) =>
               /\ \E k \in 1..Len(glucoseLogs') : glucoseLogs'[k] = calls[i].ret
               /\ IsSortedDesc(glucoseLogs', "timestamp")]_vars

\* an added log is listed below a strictly newer one
C3_Witness ==
  /\ last = Settle("glucose", "ok")
  /\ \E k \in 2..Len(glucoseLogs) :
       /\ glucoseLogs[k].id[1] = "gl_"
       /\ GetTime(glucoseLogs[k - 1].timestamp) > GetTime(glucoseLogs[k].timestamp)

\* Array.prototype.filter(e => !ids.includes(e.id)) as the claim reads it
Without(s, ids) == SelectSeq(s, LAMBDA e : e.id \notin Range(ids))

\* C4: deleteMany(ids) removes exactly the entries whose id is in ids, from the
\* list the container shows and from the persisted ledger, leaves every other
\* entry as it was, and with no ids changes nothing
C4_DeleteManyExact ==
  [][/\ \A ids \in PickIdSeqs(weightHistory) :
          (scope = "weight" /\ user # None /\ MemDeleteMultipleWeightEntries(ids)) =>
            /\ weightHistory' = Without(weightHistory, ids)
            /\ weightHistoryStore' =
                 Put(weightHistoryStore, user.id,
                     Without(Get(weightHistoryStore, user.id), ids))
            /\ ids = <<>> => UNCHANGED <<weightHistory, weightHistoryStore>>
     /\ \A ids \in PickIdSeqs(glucoseLogs) :
          (scope = "glucose" /\ user # None /\ MemDeleteMultipleGlucoseLogs(ids)) =>
            /\ glucoseLogs' = Without(glucoseLogs, ids)
            /\ glucoseLogsStore' =
                 Put(glucoseLogsStore, user.id,
                     Without(Get(glucoseLogsStore, user.id), ids))
            /\ ids = <<>> => UNCHANGED <<glucoseLogs, glucoseLogsStore>>
     /\ \A i \in 1..MaxInflight :
          /\ (At(i, "deleteMultipleWeightEntries", "req")
                /\ DbDeleteMultipleWeightEntriesServe(i)) =>
               /\ weightTable' = Without(weightTable, calls[i].a.ids)
               /\ calls[i].a.ids = <<>> => weightTable' = weightTable
          /\ (At(i, "deleteMultipleWeightEntries", "resp")
                /\ DbDeleteMultipleWeightEntriesResume(i)) =>
               /\ weightHistory' = Without(weightHistory, calls[i].a.ids)
               /\ weightTable' = weightTable
               /\ calls[i].a.ids = <<>> => weightHistory' = weightHistory
          /\ (At(i, "deleteMultipleGlucoseLogs", "req")
                /\ DbDeleteMultipleGlucoseLogsServe(i)) =>
               /\ glucoseTable' = Without(glucoseTable, calls[i].a.ids)
               /\ calls[i].a.ids = <<>> => glucoseTable' = glucoseTable
          /\ (At(i, "deleteMultipleGlucoseLogs", "resp")
                /\ DbDeleteMultipleGlucoseLogsResume(i)) =>
               /\ glucoseLogs' = Without(glucoseLogs, calls[i].a.ids)
               /\ glucoseTable' = glucoseTable
               /\ calls[i].a.ids = <<>> => glucoseLogs' = glucoseLogs]_vars

\* the server has deleted one of two stored weights; the other is still stored
C4_Witness ==
  \E i \in 1..Len(calls) :
    /\ At(i, "deleteMultipleWeightEntries", "resp")
    /\ Len(calls[i].a.ids) = 1
    /\ Len(weightHistory) = 2
    /\ Len(weightTable) = 1
    /\ weightTable[1].id # calls[i].a.ids[1]

\* every field of `before` that the partial does not supply is in `after` as it was
Kept(before, after, d) ==
  /\ DOMAIN after = DOMAIN before
  /\ \A k \in DOMAIN before \ DOMAIN d : after[k] = before[k]

KeptInTable(uid, d) ==
  /\ Len(users') = Len(users)
  /\ \A k \in 1..Len(users) :
       IF users[k].id = uid THEN Kept(users[k], users'[k], d)
       ELSE users'[k] = users[k]

\* C5: updateProfile changes only the fields that are supplied; every other
\* field, the id and the email among them, keeps the value the stored profile
\* had, in the stored record and in the profile the container shows afterwards
C5_UpdateProfileFrame ==
  [][/\ \A d \in Partials :
          (user # None /\ profile # None /\ MemUpdateProfileData(d)) =>
            /\ Kept(profile, profile', d)
            /\ \A f \in DOMAIN d : profile'[f] = d[f]
            /\ KeptInTable(user.id, d)
     /\ \A i \in 1..MaxInflight :
          /\ (At(i, "updateProfile", "req") /\ DbUpdateProfileServe(i)) =>
               KeptInTable(calls[i].a.userId, calls[i].a.data)
          /\ (At(i, "updateProfile", "resp") /\ DbUpdateProfileResume(i)
                /\ calls[i].ret # None /\ calls[i].snap # None) =>
               /\ Kept(getUserProfile(calls[i].snap.users, calls[i].a.userId), profile',
                       calls[i].a.data)
               /\ \A f \in DOMAIN calls[i].a.data \cap {"name", "height"} :
                    profile'[f] = calls[i].a.data[f]
               /\ users' = users]_vars

\* the name was supplied after the height had been: both are shown
C5_Witness ==
  /\ last = Settle("updateProfile", "ok")
  /\ profile # None
  /\ profile.name = "Bob"
  /\ profile.height = 170
  /\ profile.email = "a@x"

\* C6: in every reachable state the weightHistory and glucoseLogs the container
\* shows are ordered descending by date / timestamp
C6_ListsSortedDesc ==
  /\ IsSortedDesc(weightHistory, "date")
  /\ IsSortedDesc(glucoseLogs, "timestamp")

\* C7: the id an add generates differs from the id of every entry created
\* before in the same collection, deleted ones included
C7_GeneratedIdsFresh ==
  [][/\ \A w \in Weights :
          (scope = "weight" /\ user # None /\ MemAddWeightEntry(w)) =>
            NewWeightEntry(w).id \notin GetIds(createdW, user.id)
     /\ \A l \in LogInputs :
          (scope = "glucose" /\ user # None /\ MemAddGlucoseLog(l)) =>
            NewGlucoseLog(l).id \notin GetIds(createdG, user.id)
     /\ \A i \in 1..MaxInflight :
          /\ (At(i, "addWeightEntry", "req") /\ DbAddWeightEntryServe(i)
                /\ weightTable' # weightTable) =>
               NewWeightRow(calls[i].a).id \notin GetIds(createdW, calls[i].a.userId)
          /\ (At(i, "addGlucoseLog", "req") /\ DbAddGlucoseLogServe(i)
                /\ glucoseTable' # glucoseTable) =>
               NewGlucoseRow(calls[i].a).id \notin GetIds(createdG, calls[i].a.userId)]_vars

\* C8: no two user records have the same email
C8_EmailsUnique ==
  \A i, j \in 1..Len(users) : i # j => users[i].email # users[j].email

Cleared ==
  /\ user = None /\ profile = None
  /\ weightHistory = <<>> /\ glucoseLogs = <<>>
  /\ authState = "loggedOut"

\* C9: whenever a call of logout() settles, the container holds no user, no
\* profile, empty lists and authState 'loggedOut'
C9_LogoutClears ==
  [][/\ MemLogout => Cleared'
     /\ \A i \in 1..MaxInflight :
          (At(i, "logout", "req") /\ (DbLogoutServe(i) \/ DbReject(i))) => Cleared']_vars

\* what is persisted for a user
PersistedProfile(uid) ==
  IF impl = "mem"
  THEN LET k == FindIndex(users, "id", uid) IN
         IF k = 0 THEN None ELSE users[k]
  ELSE getUserProfile(users, uid)

PersistedWeights(uid) ==
  IF impl = "mem" THEN Get(weightHistoryStore, uid) ELSE getWeightHistory(uid)

PersistedLogs(uid) ==
  IF impl = "mem" THEN Get(glucoseLogsStore, uid) ELSE getGlucoseLogs(uid)

ShowsPersistedOf(e) ==
  /\ authState = "loggedIn"
  /\ user # None
  /\ user.email = e
  /\ profile = PersistedProfile(user.id)
  /\ weightHistory = PersistedWeights(user.id)
  /\ glucoseLogs = PersistedLogs(user.id)

\* C10: whenever login or signup completes without an error, authState is
\* 'loggedIn' and the profile and the two lists of the container are the
\* persisted ones of the user who signed in
C10_LoginShowsPersisted ==
  [][/\ \A e \in Emails, p \in Passwords :
          /\ (MemLogin(e, p) /\ last' = Settle("login", "ok")) => ShowsPersistedOf(e)'
          /\ \A n \in Names :
               (MemSignup(e, p, n) /\ last' = Settle("signup", "ok"))
                 => ShowsPersistedOf(e)'
     /\ \A i \in 1..MaxInflight :
          (IsLoader(i) /\ calls[i].op \in {"login", "signup"}
             /\ (DbLoadApply(i) \/ DbLoadLogout(i)) /\ Len(calls') < Len(calls))
            => ShowsPersistedOf(calls[i].a.email)']_vars

\* the session reference names the user record k
SessionNames(sess, tbl, k) ==
  /\ sess # None
  /\ k \in 1..Len(tbl)
  /\ sess.value = (IF impl = "mem" THEN tbl[k].email ELSE tbl[k].id)

\* a step that signs a user in or out: the only steps that may write the session
SessionStep ==
  \/ /\ impl = "mem"
     /\ \/ MemLogout
        \/ \E e \in Emails, p \in Passwords : MemLogin(e, p)
        \/ \E e \in Emails, p \in Passwords, n \in Names : MemSignup(e, p, n)
  \/ /\ impl = "db"
     /\ \E i \in 1..Len(calls) :
          \/ At(i, "login", "req") /\ DbLoginServe(i)
          \/ At(i, "signup", "insert") /\ DbSignupInsert(i)
          \/ At(i, "logout", "req") /\ DbLogoutServe(i)
          \/ IsLoader(i) /\ calls[i].pc = "loadLogout" /\ DbLoadLogout(i)

\* C11: the session reference names U once a login or signup of U has succeeded,
\* names nobody once a logout has, is written by nothing else, and the check of
\* the session at mount gives the user it names, or nobody when it names nobody
C11_SessionNamesUser ==
  [][/\ \A e \in Emails, p \in Passwords :
          /\ (MemLogin(e, p) /\ last' = Settle("login", "ok")) =>
               \E k \in 1..Len(users') :
                 users'[k].email = e /\ SessionNames(session', users', k)
          /\ \A n \in Names :
               (MemSignup(e, p, n) /\ last' = Settle("signup", "ok")) =>
                 \E k \in 1..Len(users') :
                   users'[k].email = e /\ SessionNames(session', users', k)
     /\ MemLogout => session' = None
     /\ MemMount =>
          IF session = None THEN user' = None /\ authState' = "loggedOut"
          ELSE /\ user' # None
               /\ \E k \in 1..Len(users) :
                    SessionNames(session, users, k) /\ user' = AppUserOf(users[k])
     /\ \A i \in 1..MaxInflight :
          /\ (At(i, "login", "req") /\ DbLoginServe(i) /\ Len(calls') = Len(calls)) =>
               \E k \in 1..Len(users') :
                 users'[k].email = calls[i].a.email /\ SessionNames(session', users', k)
          /\ (At(i, "signup", "insert") /\ DbSignupInsert(i)
                /\ Len(calls') = Len(calls)) =>
               \E k \in 1..Len(users') :
                 users'[k].email = calls[i].a.email /\ SessionNames(session', users', k)
          /\ (At(i, "logout", "req") /\ DbLogoutServe(i)) => session' = None
          /\ (At(i, "mount", "req") /\ DbMountCheck(i)) =>
               IF session = None THEN user' = None /\ authState' = "loggedOut"
               ELSE /\ user' # None
                    /\ \E k \in 1..Len(users) :
                         SessionNames(session, users, k) /\ user' = AppUserOf(users[k])
     /\ session' # session => SessionStep]_vars

\* the call fails with "User not authenticated.", nothing goes to the backend,
\* and neither the stored data nor the container changes
NotAuthOutcome(op) ==
  /\ last' = Settle(op, ErrNotAuth)
  /\ calls' = calls
  /\ UNCHANGED <<users, memStores, dbTables, session, container>>

\* C12: every mutation of the container that is invoked while `user` is null
\* fails with "User not authenticated.", makes no persistence call and leaves
\* profile, weightHistory and glucoseLogs as they were
C12_MutationsNeedUser ==
  [][user = None =>
       /\ \A d \in PartialInputs :
            (MemUpdateProfileData(d) \/ DbUpdateProfile(d)) => NotAuthOutcome("updateProfile")
       /\ \A w \in Weights :
            (MemAddWeightEntry(w) \/ DbAddWeightEntry(w)) => NotAuthOutcome("weight")
       /\ \A x \in WeightInputs(weightHistory) :
            (MemUpdateWeightEntry(x) \/ DbUpdateWeightEntry(x)) => NotAuthOutcome("weight")
       /\ \A id \in PickIds(weightHistory) :
            (MemDeleteWeightEntry(id) \/ DbDeleteWeightEntry(id)) => NotAuthOutcome("weight")
       /\ \A ids \in PickIdSeqs(weightHistory) :
            (MemDeleteMultipleWeightEntries(ids) \/ DbDeleteMultipleWeightEntries(ids))
              => NotAuthOutcome("weight")
       /\ \A l \in LogInputs :
            (MemAddGlucoseLog(l) \/ DbAddGlucoseLog(l)) => NotAuthOutcome("glucose")
       /\ \A x \in GlucoseInputs(glucoseLogs) :
            (MemUpdateGlucoseLog(x) \/ DbUpdateGlucoseLog(x)) => NotAuthOutcome("glucose")
       /\ \A id \in PickIds(glucoseLogs) :
            (MemDeleteGlucoseLog(id) \/ DbDeleteGlucoseLog(id)) => NotAuthOutcome("glucose")
       /\ \A ids \in PickIdSeqs(glucoseLogs) :
            (MemDeleteMultipleGlucoseLogs(ids) \/ DbDeleteMultipleGlucoseLogs(ids))
              => NotAuthOutcome("glucose")]_vars

\* a weight mutation was refused after the user who owns stored weights logged out
C12_Witness ==
  /\ last = Settle("weight", ErrNotAuth)
  /\ user = None
  /\ authState = "loggedOut"
  /\ Len(users) = 1
  /\ weightTable # <<>> \/ weightHistoryStore # <<>>

MutationOps ==
  {"updateProfile", "addWeightEntry", "updateWeightEntry", "deleteWeightEntry",
   "deleteMultipleWeightEntries", "addGlucoseLog", "updateGlucoseLog",
   "deleteGlucoseLog", "deleteMultipleGlucoseLogs"}

\* call i, a mutation, settles in this step with an error
MutationFails(i) ==
  /\ i \in 1..Len(calls)
  /\ calls[i].op \in MutationOps
  /\ calls' = RemoveAt(calls, i)
  /\ last'.res # "ok"

\* the persisted data and the container's profile and lists are what snap holds
AsBefore(snap) ==
  /\ users' = snap.users
  /\ weightTable' = snap.weightTable
  /\ glucoseTable' = snap.glucoseTable
  /\ profile' = snap.profile
  /\ weightHistory' = snap.weightHistory
  /\ glucoseLogs' = snap.glucoseLogs

\* C13: when the persistence call of a mutation rejects, the stored data and
\* the container's profile and lists are exactly as they were before the call
C13_MutationsAtomic ==
  [][\A i \in 1..MaxInflight :
       (MutationFails(i) /\ calls[i].snap # None) => AsBefore(calls[i].snap)]_vars

\* call i, a signup, settles in this step with an error
SignupFails(i) ==
  /\ i \in 1..Len(calls)
  /\ calls[i].op = "signup"
  /\ calls' = RemoveAt(calls, i)
  /\ last'.res # "ok"

\* C14: whenever signup rejects, it has persisted no user record and has
\* established no session: the users and the session reference are as the call
\* found them
C14_SignupAtomic ==
  [][/\ \A e \in Emails, p \in Passwords, n \in Names :
          (MemSignup(e, p, n) /\ last'.res # "ok") =>
            users' = users /\ session' = session
     /\ \A i \in 1..MaxInflight :
          (SignupFails(i) /\ calls[i].snap # None) =>
            users' = calls[i].snap.users /\ session' = calls[i].snap.session]_vars

\* C15: whenever a mutation started by a page handler fails, the page then shows
\* an error toast carrying the error, never a success toast
C15_ErrorsSurfaced ==
  [][\A i \in 1..MaxInflight : MutationFails(i) => toast' = Failure(last'.res)]_vars

\* C16: at most one state-container operation is in flight at any time
C16_OneInFlight == Len(calls) <= 1

\* the rows of the weights table that belong to somebody other than uid
RowsOfOthers(tbl, uid) == SelectSeq(tbl, LAMBDA r : r.userId # uid)

\* the in-memory weight ledgers of everybody other than uid
StoresOfOthers(store, uid) == [u \in DOMAIN store \ {uid} |-> store[u]]

\* list(uid) of the weight ledger, as the persistence layer answers it
ListOf(uid) == IF impl = "db" THEN getWeightHistory(uid) ELSE Get(weightHistoryStore, uid)

\* C17: no step taken while a user is the current user changes or removes a
\* weight entry that belongs to somebody else, and list(user) holds only
\* entries that this user created
C17_PerUserScoping ==
  [][(user # None /\ user' = user) =>
       /\ RowsOfOthers(weightTable', user.id) = RowsOfOthers(weightTable, user.id)
       /\ StoresOfOthers(weightHistoryStore', user.id)
            = StoresOfOthers(weightHistoryStore, user.id)
       /\ IdsOf(ListOf(user.id)') \subseteq GetIds(createdW', user.id)]_vars

\* the profile a signup with (e, n) is to leave behind, as a read by id answers it
SignedUpProfile(tbl, e, n) ==
  LET k == FindIndex(tbl, "email", e)
      found == IF impl = "db" THEN getUserProfile(tbl, tbl[k].id)
               ELSE tbl[FindIndex(tbl, "id", tbl[k].id)]
  IN /\ k # 0
     /\ found # None
     /\ found.email = e
     /\ found.name = n
     /\ found.height = 0
     /\ found.birthdate = IF impl = "db" THEN DbNull ELSE ""

\* the user records of tbl are one per user id
OneProfileEach(tbl) == \A j, k \in 1..Len(tbl) : tbl[j].id = tbl[k].id => j = k

\* every user record of the state is still there in the next one
NoneRemoved ==
  \A k \in 1..Len(users) : \E j \in 1..Len(users') :
     users'[j].id = users[k].id /\ users'[j].email = users[k].email

\* C18: right after a successful signup the profile of the new user is stored
\* with the supplied name and the default birthdate and height; no step removes
\* a user record, and no two user records are of the same user id
C18_OneProfilePerUser ==
  [][/\ \A e \in Emails, n \in Names :
          \/ impl = "mem" /\ MemSignup(e, "pw1", n) /\ last'.res = "ok"
          \/ \E i \in 1..Len(calls) :
               /\ calls[i].op = "signup" /\ calls[i].a.email = e /\ calls[i].a.name = n
               /\ calls' = RemoveAt(calls, i) /\ last'.res = "ok"
          => SignedUpProfile(users', e, n)
     /\ NoneRemoved
     /\ OneProfileEach(users')]_vars

WeightContent == {"date", "weight"}

GlucoseContent == {"timestamp", "mealType", "glycemia", "dosage"}

\* new is old after update(x): as many entries, the entries of other ids as
\* they were and in their order, the content of x in every entry of x's id,
\* and old itself when no entry has that id
UpdatedAs(old, new, x, content) ==
  /\ Len(new) = Len(old)
  /\ SelectSeq(new, LAMBDA e : e.id # x.id) = SelectSeq(old, LAMBDA e : e.id # x.id)
  /\ \A k \in 1..Len(new) : new[k].id = x.id => \A f \in content : new[k][f] = x[f]
  /\ x.id \notin IdsOf(old) => new = old

\* the backend answers call i of op in this step
Served(i, op) ==
  /\ i \in 1..Len(calls)
  /\ calls[i].op = op /\ calls[i].pc = "req"
  /\ Len(calls') = Len(calls) /\ calls'[i].op = op /\ calls'[i].pc = "resp"

\* call i of op, at pc, settles in this step
Settles(i, op, pc) ==
  /\ i \in 1..Len(calls)
  /\ calls[i].op = op /\ calls[i].pc = pc
  /\ calls' = RemoveAt(calls, i)

\* C19: update(entry) puts the content of entry in the entry of that id, leaves
\* every other entry and the number of entries as they were, and changes nothing
\* when no entry has that id; in the stored collection and in the list shown
C19_UpdateFrame ==
  [][/\ \A x \in WeightInputs(weightHistory) :
          (user # None /\ MemUpdateWeightEntry(x)) =>
            /\ UpdatedAs(Get(weightHistoryStore, user.id),
                         Get(weightHistoryStore', user.id), x, WeightContent)
            /\ UpdatedAs(weightHistory, weightHistory', x, WeightContent)
     /\ \A x \in GlucoseInputs(glucoseLogs) :
          (user # None /\ MemUpdateGlucoseLog(x)) =>
            /\ UpdatedAs(Get(glucoseLogsStore, user.id),
                         Get(glucoseLogsStore', user.id), x, GlucoseContent)
            /\ UpdatedAs(glucoseLogs, glucoseLogs', x, GlucoseContent)
     /\ \A i \in 1..MaxInflight :
          /\ Served(i, "updateWeightEntry") =>
               /\ UpdatedAs(weightTable, weightTable', calls[i].a, WeightContent)
               /\ calls[i].a.id \in IdsOf(weightTable)
               /\ weightHistory' = weightHistory
          /\ Settles(i, "updateWeightEntry", "req") =>
               weightTable' = weightTable /\ weightHistory' = weightHistory
          /\ Settles(i, "updateWeightEntry", "resp") =>
               /\ UpdatedAs(weightHistory, weightHistory', calls[i].a, WeightContent)
               /\ weightTable' = weightTable
          /\ Served(i, "updateGlucoseLog") =>
               /\ UpdatedAs(glucoseTable, glucoseTable', calls[i].a, GlucoseContent)
               /\ calls[i].a.id \in IdsOf(glucoseTable)
               /\ glucoseLogs' = glucoseLogs
          /\ Settles(i, "updateGlucoseLog", "req") =>
               glucoseTable' = glucoseTable /\ glucoseLogs' = glucoseLogs
          /\ Settles(i, "updateGlucoseLog", "resp") =>
               /\ UpdatedAs(glucoseLogs, glucoseLogs', calls[i].a, GlucoseContent)
               /\ glucoseTable' = glucoseTable]_vars

\* an update has given one of several weight entries a new weight
C19_Witness ==
  /\ last = Settle("weight", "ok")
  /\ Len(weightHistory) >= 2
  /\ Cardinality({k \in 1..Len(weightHistory) : weightHistory[k].weight \in EditWeights}) = 1

\* new is old after delete(id): no entry of that id is left, every other entry
\* is there as it was and in its order, and old itself when no entry had the id
DeletedAs(old, new, id) ==
  /\ id \notin IdsOf(new)
  /\ Len(new) = Cardinality({k \in 1..Len(old) : old[k].id # id})
  /\ new = SelectSeq(old, LAMBDA e : e.id # id)
  /\ id \notin IdsOf(old) => new = old

\* C20: delete(id) removes the entries of that id and no other, changes nothing
\* when no entry has that id, and so leaves after a second delete(id) what the
\* first one left; in the stored collection and in the list shown
C20_DeleteExact ==
  [][/\ \A id \in PickIds(weightHistory) :
          (user # None /\ MemDeleteWeightEntry(id)) =>
            /\ DeletedAs(Get(weightHistoryStore, user.id),
                         Get(weightHistoryStore', user.id), id)
            /\ DeletedAs(weightHistory, weightHistory', id)
     /\ \A id \in PickIds(glucoseLogs) :
          (user # None /\ MemDeleteGlucoseLog(id)) =>
            /\ DeletedAs(Get(glucoseLogsStore, user.id),
                         Get(glucoseLogsStore', user.id), id)
            /\ DeletedAs(glucoseLogs, glucoseLogs', id)
     /\ \A i \in 1..MaxInflight :
          /\ Served(i, "deleteWeightEntry") =>
               /\ DeletedAs(weightTable, weightTable', calls[i].a.id)
               /\ weightHistory' = weightHistory
          /\ Settles(i, "deleteWeightEntry", "req") =>
               weightTable' = weightTable /\ weightHistory' = weightHistory
          /\ Settles(i, "deleteWeightEntry", "resp") =>
               /\ DeletedAs(weightHistory, weightHistory', calls[i].a.id)
               /\ weightTable' = weightTable
          /\ Served(i, "deleteGlucoseLog") =>
               /\ DeletedAs(glucoseTable, glucoseTable', calls[i].a.id)
               /\ glucoseLogs' = glucoseLogs
          /\ Settles(i, "deleteGlucoseLog", "req") =>
               glucoseTable' = glucoseTable /\ glucoseLogs' = glucoseLogs
          /\ Settles(i, "deleteGlucoseLog", "resp") =>
               /\ DeletedAs(glucoseLogs, glucoseLogs', calls[i].a.id)
               /\ glucoseTable' = glucoseTable]_vars

\* the backend has deleted one of the weight rows this user created, and
\* another row is left
C20_Witness ==
  /\ user # None
  /\ \E i \in 1..Len(calls) :
       /\ calls[i].op = "deleteWeightEntry" /\ calls[i].pc = "resp"
       /\ calls[i].a.id \in GetIds(createdW, user.id)
       /\ calls[i].a.id \notin IdsOf(weightTable)
  /\ weightTable # <<>>

\* C21: authState = 'loggedIn' implies a user and a profile are set, and
\* authState = 'loggedOut' implies user and profile are null and both lists
\* are empty
C21_AuthStateConsistent ==
  /\ authState = "loggedIn" => user # None /\ profile # None
  /\ authState = "loggedOut" =>
       /\ user = None /\ profile = None
       /\ weightHistory = <<>> /\ glucoseLogs = <<>>

\* C22: authState starts as 'loading'; the session check of a mount always
\* brings it to 'loggedIn' or 'loggedOut'; and nothing but a new mount of the
\* provider brings it back to 'loading'
C22_MountSettles ==
  /\ authState = "loading"
  /\ (authState = "loading") ~> (authState # "loading")
  /\ [][(authState # "loading" /\ authState' = "loading") => Reload]_vars

\* a mount found the session of a stored user and its reads were rejected: the
\* check is in the catch block of loadUserData, authState still 'loading'
C22_Witness ==
  /\ impl = "db"
  /\ authState = "loading"
  /\ user # None
  /\ \E i \in 1..Len(calls) : calls[i].op = "mount" /\ calls[i].pc = "loadLogout"

\* list(uid) of the glucose ledger, as the persistence layer answers it
LogListOf(uid) == IF impl = "db" THEN getGlucoseLogs(uid) ELSE Get(glucoseLogsStore, uid)

\* the ids of the entries uid had and has deleted
DeletedWeights(uid) == GetIds(createdW, uid) \ IdsOf(ListOf(uid))

DeletedLogs(uid) == GetIds(createdG, uid) \ IdsOf(LogListOf(uid))

\* list(uid) read from the given table or store
ListFrom(tbl, store, uid) ==
  IF impl = "db" THEN SelectSeq(tbl, LAMBDA r : r.userId = uid) ELSE Get(store, uid)

\* C23: when a login or a session restore shows a user's ledgers, no entry the
\* user had deleted is in them, in the list shown or in the stored list
C23_DeletionDurable ==
  [][(authState # "loggedIn" /\ authState' = "loggedIn" /\ user' # None) =>
       /\ DeletedWeights(user'.id) \cap IdsOf(weightHistory') = {}
       /\ DeletedWeights(user'.id)
            \cap IdsOf(ListFrom(weightTable', weightHistoryStore', user'.id)) = {}
       /\ DeletedLogs(user'.id) \cap IdsOf(glucoseLogs') = {}
       /\ DeletedLogs(user'.id)
            \cap IdsOf(ListFrom(glucoseTable', glucoseLogsStore', user'.id)) = {}]_vars

\* C24: once every started operation has completed and a user is signed in,
\* the weightHistory shown holds exactly the weight entries stored for that
\* user, whatever the interleaving of the calls was
C24_ListsMatchStore ==
  (calls = <<>> /\ authState = "loggedIn" /\ user # None) =>
    Range(weightHistory) = Range(PersistedWeights(user.id))

\* C25: while the profile page shows its weight table, the selected ids are
\* without duplicates and are ids of entries that weightHistory holds
C25_SelectionWithinList ==
  ProfilePageShown =>
    /\ \A j, k \in 1..Len(selectedWeightIds) :
         selectedWeightIds[j] = selectedWeightIds[k] => j = k
    /\ Range(selectedWeightIds) \subseteq IdsOf(weightHistory)

\* the logs shown whose timestamp is within the last n days, up to now; the
\* two sides are compared in milliseconds relative to the start of second `sec`
LogsOfLastDays(n) ==
  {glucoseLogs[k] : k \in {j \in 1..Len(glucoseLogs) :
      /\ glucoseLogs[j].timestamp - sec <= 0
      /\ glucoseLogs[j].timestamp - sec >= -(n * DaySeconds)
      /\ glucoseLogs[j].timestamp - sec = -(n * DaySeconds) => ms = 0}}

\* C26: for each time range the chart data holds exactly the logs of the last
\* 7, 14 or 30 days up to now, oldest first
C26_ChartData ==
  \A n \in TimeRanges :
    /\ Range(filteredData(n)) = LogsOfLastDays(n)
    /\ Len(filteredData(n)) = Cardinality({j \in 1..Len(glucoseLogs) :
                                             glucoseLogs[j] \in LogsOfLastDays(n)})
    /\ \A k \in 1..(Len(filteredData(n)) - 1) :
         filteredData(n)[k].timestamp <= filteredData(n)[k + 1].timestamp

\* C27: the dashboard's latest log has the greatest timestamp of the logs
\* shown, its previous log the greatest of the others, and the weight taken
\* for the BMI is of the entry with the greatest date
C27_LatestIsNewest ==
  /\ latestLog # None =>
       \A k \in 1..Len(glucoseLogs) : latestLog.timestamp >= glucoseLogs[k].timestamp
  /\ previousLog # None =>
       \A k \in 2..Len(glucoseLogs) : previousLog.timestamp >= glucoseLogs[k].timestamp
  /\ latestWeightEntry # None =>
       \A k \in 1..Len(weightHistory) : latestWeightEntry.date >= weightHistory[k].date

====
